---- MODULE Spec2Model ----
(***************************************************************************)
(* A model of the Memoirs worker (src/worker.js): the /chat pipeline       *)
(* (source chain, enhanceAIResponse, contextual fallback, D1 save), the    *)
(* /save endpoint and the /admin/analyze endpoint, over an abstract D1     *)
(* store.                                                                  *)
(*                                                                         *)
(* JavaScript strings are sequences of one-character strings, so that      *)
(* trim, split, includes, replace and length are computed as the code      *)
(* computes them.  A character outside ASCII, and the backtick, is written *)
(* "uXXXX" (its code unit in hex).                                         *)
(***************************************************************************)
EXTENDS Integers, Sequences, FiniteSets, TLC

(***************************************************************************)
(* Bounds of the model.                                                    *)
(***************************************************************************)
\* the clock (Date.now(), in ms) runs from 0 to MaxClock
MaxClock == 1

(***************************************************************************)
(* JavaScript string primitives.                                           *)
(***************************************************************************)
\* the characters matched by \s (and removed by String.prototype.trim)
Whitespace == {" ", "\n", "\t"}

UpperCase == <<"A","B","C","D","E","F","G","H","I","J","K","L","M",
               "N","O","P","Q","R","S","T","U","V","W","X","Y","Z">>

LowerCase == <<"a","b","c","d","e","f","g","h","i","j","k","l","m",
               "n","o","p","q","r","s","t","u","v","w","x","y","z">>

Digits == <<"0","1","2","3","4","5","6","7","8","9">>

Range(f) == { f[i] : i \in DOMAIN f }

\* the Arabic block U+0600..U+06FF, as far as src/worker.js uses it
UrduChars ==
    {"u060C","u061F","u0622","u0626","u0627","u0628","u062A","u062C","u062E",
     "u062F","u0631","u0632","u0633","u0634","u0636","u0637","u0638","u0639",
     "u0641","u0642","u0644","u0645","u0646","u0648","u067E","u0686","u06A9",
     "u06AF","u06BA","u06BE","u06C1","u06CC","u06D2","u06D4"}

\* /[a-zA-Z\u0600-\u06FF]/
IsLetter(c) == c \in Range(UpperCase) \cup Range(LowerCase) \cup UrduChars

\* \w
IsWordChar(c) == c \in Range(UpperCase) \cup Range(LowerCase) \cup Range(Digits) \cup {"_"}

toLowerChar(c) ==
    IF \E i \in DOMAIN UpperCase : UpperCase[i] = c
    THEN LowerCase[CHOOSE i \in DOMAIN UpperCase : UpperCase[i] = c]
    ELSE c

\* String.prototype.toLowerCase
toLowerCase(s) == [i \in 1..Len(s) |-> toLowerChar(s[i])]

\* s.substring(i) for a 1-based i, the empty string past the end
DropFirst(s, n) == IF n >= Len(s) THEN <<>> ELSE SubSeq(s, n + 1, Len(s))

TakeFirst(s, n) == IF n >= Len(s) THEN s ELSE SubSeq(s, 1, n)

\* the number of leading characters of s that lie in set
LeadingRun(s, set) ==
    IF \E i \in 1..Len(s) : s[i] \notin set
    THEN (CHOOSE i \in 1..Len(s) : s[i] \notin set /\ \A j \in 1..(i-1) : s[j] \in set) - 1
    ELSE Len(s)

\* the number of trailing characters of s that lie in set
TrailingRun(s, set) ==
    IF \E i \in 1..Len(s) : s[i] \notin set
    THEN Len(s) - (CHOOSE i \in 1..Len(s) : s[i] \notin set /\ \A j \in (i+1)..Len(s) : s[j] \in set)
    ELSE Len(s)

\* s.replace(/\s+$/, '')
trimEnd(s) == TakeFirst(s, Len(s) - TrailingRun(s, Whitespace))

\* String.prototype.trim
trim(s) == trimEnd(DropFirst(s, LeadingRun(s, Whitespace)))

\* sub occurs in s at (1-based) position i
MatchesAt(s, sub, i) ==
    /\ i >= 1
    /\ i + Len(sub) - 1 <= Len(s)
    /\ \A k \in 1..Len(sub) : s[i + k - 1] = sub[k]

\* String.prototype.includes
includes(s, sub) == \E i \in 1..(Len(s) + 1) : MatchesAt(s, sub, i)

\* s.split(/\s+/).length: one more than the number of maximal whitespace runs
splitWhitespaceLength(s) ==
    1 + Cardinality({ i \in 1..Len(s) :
                        /\ s[i] \in Whitespace
                        /\ (i = 1 \/ s[i-1] \notin Whitespace) })

\* s.split(sep).pop(): what follows the last occurrence of sep, s itself if none
splitPop(s, sep) ==
    IF includes(s, sep)
    THEN LET last == CHOOSE i \in 1..Len(s) :
                        /\ MatchesAt(s, sep, i)
                        /\ \A j \in (i+1)..Len(s) : ~MatchesAt(s, sep, j)
         IN  DropFirst(s, last + Len(sep) - 1)
    ELSE s

\* s.split(sep)[0]: what precedes the first occurrence of sep, s itself if none
splitFirst(s, sep) ==
    IF includes(s, sep)
    THEN LET first == CHOOSE i \in 1..Len(s) :
                        /\ MatchesAt(s, sep, i)
                        /\ \A j \in 1..(i-1) : ~MatchesAt(s, sep, j)
         IN  TakeFirst(s, first - 1)
    ELSE s

\* Number.prototype.toString for a natural number
RECURSIVE numberToString(_)
numberToString(n) ==
    IF n < 10 THEN <<Digits[n + 1]>>
    ELSE numberToString(n \div 10) \o <<Digits[(n % 10) + 1]>>

(***************************************************************************)
(* JavaScript values.  s holds the characters of a string (the digits of   *)
(* a number).                                                              *)
(***************************************************************************)
Undefined == [t |-> "undefined", s |-> <<>>]

Null == [t |-> "null", s |-> <<>>]

Str(chars) == [t |-> "string", s |-> chars]

\* a non-zero number
Num(digits) == [t |-> "number", s |-> digits]

\* the outcome of an expression that throws
Thrown == [t |-> "throw", s |-> <<>>]

\* ToBoolean
Truthy(v) == (v.t = "string" /\ v.s # <<>>) \/ v.t = "number"

\* typeof v === 'string'
IsString(v) == v.t = "string"

\* a || b
OrElse(a, b) == IF Truthy(a) THEN a ELSE b

(***************************************************************************)
(* enhanceAIResponse (src/worker.js 664-690): null, or the cleaned text.   *)
(***************************************************************************)
\* response.replace(/^[:\-]\s*/, '')
stripLeadingArtifact(response) ==
    IF Len(response) > 0 /\ response[1] \in {":", "-"}
    THEN LET rest == DropFirst(response, 1)
         IN  DropFirst(rest, LeadingRun(rest, Whitespace))
    ELSE response

enhanceAIResponse(rawResponse, userMessage, language, history) ==
    IF rawResponse = <<>> \/ Len(trim(rawResponse)) < 3
    THEN Null
    ELSE LET response == trim(rawResponse)
             lowerResponse == toLowerCase(response)
         IN  IF splitWhitespaceLength(response) = 1 /\ Len(response) < 5
             THEN Null
             ELSE IF /\ \/ includes(lowerResponse, <<"t","e","l","l"," ","m","e"," ","m","o","r","e">>)
                        \/ includes(lowerResponse, <<"t","e","l","l"," ","m","e"," ","a","b","o","u","t">>)
                     /\ Len(response) < 40
             THEN Null
             ELSE Str(trimEnd(stripLeadingArtifact(response)))

(***************************************************************************)
(* What a source sends back (src/worker.js 361-451, 462-495).  net is the  *)
(* outcome of fetch: "throw" (the promise rejects), "ok", "503" or         *)
(* "error" (another status); for "ok", shape is the shape of the JSON body *)
(* and text the string it carries.                                         *)
(***************************************************************************)
Shapes ==
    { "generated_text",        \* {generated_text: text}
      "array_generated_text",  \* [{generated_text: text}]
      "array_text",            \* [{text: text}]
      "text",                  \* {text: text}
      "conversation",          \* {conversation: {generated_responses: [text]}}
      "string",                \* "text"
      "unrecognized",          \* {}
      "null",                  \* null
      "bad_json" }             \* not JSON: response.json() rejects

SourceReply(net, shape, text) == [net |-> net, shape |-> shape, text |-> text]

\* lines 376-411: the text of the first recognized shape, '' if none; the
\* property reads of a null result throw
extractRawResponse(result) ==
    IF result.shape \in {"null", "bad_json"} THEN Thrown
    ELSE IF result.shape = "unrecognized" THEN Str(<<>>)
    ELSE Str(result.text)

\* line 417: the leading and the trailing run of quote characters (double
\* quote, apostrophe, backtick) are removed
stripQuotes(s) ==
    LET quotes == {"\"", "'", "u0060"}
        rest == DropFirst(s, LeadingRun(s, quotes))
    IN  TakeFirst(rest, Len(rest) - TrailingRun(rest, quotes))

\* lines 414-417
cleanRawResponse(raw) == trim(stripQuotes(trim(raw)))

\* line 422
isValidResponse(rawResponse) ==
    /\ rawResponse # <<>>
    /\ Len(rawResponse) > 3
    /\ \E i \in 1..Len(rawResponse) : IsLetter(rawResponse[i])

\* lines 479-485: only [{generated_text}] and a bare string are recognized
extractGenText(textGenResult) ==
    IF textGenResult.shape \in {"null", "bad_json"} THEN Thrown
    ELSE IF textGenResult.shape \in {"array_generated_text", "string"}
    THEN Str(textGenResult.text)
    ELSE Str(<<>>)

\* lines 488-489
cleanGenText(genText) ==
    LET popped == splitPop(genText, <<"A","I",":">>)
        aiPart == IF popped # <<>> THEN popped ELSE genText
    IN  trim(splitFirst(aiPart, <<"\n">>))

\* the reply to "hear" / "there" / "can you" (lines 510-512)
hearReply(language) ==
    IF language = Str(<<"u","r","-","P","K">>)
    THEN
         <<"u062C","u06CC"," ","u06C1","u0627","u06BA","u060C"," ","u0645","u06CC","u06BA"," ",
           "u0622","u067E"," ","u06A9","u0648"," ","u0633","u0646"," ","u0631","u06C1","u0627",
           " ","u06C1","u0648","u06BA","!"," ","u0622","u067E"," ","u06A9","u06CC","u0627"," ",
           "u06A9","u06C1","u0646","u0627"," ","u0686","u0627","u06C1","u062A","u06D2"," ",
           "u06C1","u06CC","u06BA","u061F">>
    ELSE
         <<"Y","e","s",","," ","I"," ","c","a","n"," ","h","e","a","r"," ","y","o","u","!"," ",
           "W","h","a","t"," ","w","o","u","l","d"," ","y","o","u"," ","l","i","k","e"," ","t",
           "o"," ","t","e","l","l"," ","m","e","?">>

\* the reply to a greeting (lines 514-516)
helloReply(language) ==
    IF language = Str(<<"u","r","-","P","K">>)
    THEN
         <<"u06C1","u06CC","u0644","u0648","!"," ","u0622","u067E"," ","u0633","u06D2"," ",
           "u0645","u0644"," ","u06A9","u0631"," ","u062E","u0648","u0634","u06CC"," ","u06C1",
           "u0648","u0626","u06CC","u06D4"," ","u0622","u067E"," ","u0645","u062C","u06BE",
           "u06D2"," ","u0627","u067E","u0646","u06D2"," ","u0628","u0627","u0631","u06D2"," ",
           "u0645","u06CC","u06BA"," ","u06A9","u0686","u06BE"," ","u0628","u062A","u0627",
           "u0626","u06CC","u06BA","u06D4">>
    ELSE
         <<"H","e","l","l","o","!"," ","N","i","c","e"," ","t","o"," ","m","e","e","t"," ","y",
           "o","u","."," ","T","e","l","l"," ","m","e"," ","a","b","o","u","t"," ","y","o","u",
           "r","s","e","l","f",".">>

\* the greeting of a named user, up to the name (lines 521-522)
namedReplyHead(language) ==
    IF language = Str(<<"u","r","-","P","K">>)
    THEN
         <<"u0622","u067E"," ","u0633","u06D2"," ","u0645","u0644"," ","u06A9","u0631"," ",
           "u0628","u06C1","u062A"," ","u062E","u0648","u0634","u06CC"," ","u06C1","u0648",
           "u0626","u06CC","u060C"," ">>
    ELSE
         <<"N","i","c","e"," ","t","o"," ","m","e","e","t"," ","y","o","u",","," ">>

\* the greeting of a named user, after the name (lines 521-522)
namedReplyTail(language) ==
    IF language = Str(<<"u","r","-","P","K">>)
    THEN
         <<"!"," ","u0622","u067E"," ","u06A9","u06C1","u0627","u06BA"," ","u0631","u06C1",
           "u062A","u06D2"," ","u06C1","u06CC","u06BA","u061F">>
    ELSE
         <<"!"," ","W","h","e","r","e"," ","a","r","e"," ","y","o","u"," ","f","r","o","m","?">>

\* the reply to "name" without a captured name (lines 521-522)
unnamedReply(language) ==
    IF language = Str(<<"u","r","-","P","K">>)
    THEN
         <<"u0622","u067E"," ","u0633","u06D2"," ","u0645","u0644"," ","u06A9","u0631"," ",
           "u062E","u0648","u0634","u06CC"," ","u06C1","u0648","u0626","u06CC","!"," ","u0622",
           "u067E"," ","u06A9","u0627"," ","u0646","u0627","u0645"," ","u06A9","u06CC","u0627",
           " ","u06C1","u06D2","u061F">>
    ELSE
         <<"N","i","c","e"," ","t","o"," ","m","e","e","t"," ","y","o","u","!"," ","W","h","a",
           "t","'","s"," ","y","o","u","r"," ","n","a","m","e","?">>

\* lines 528-530
childhoodReply(language) ==
    IF language = Str(<<"u","r","-","P","K">>)
    THEN
         <<"u0622","u067E"," ","u06A9","u06D2"," ","u0628","u0686","u067E","u0646"," ","u06A9",
           "u06D2"," ","u0628","u0627","u0631","u06D2"," ","u0645","u06CC","u06BA"," ","u0645",
           "u0632","u06CC","u062F"," ","u0628","u062A","u0627","u0626","u06CC","u06BA","u061F">>
    ELSE
         <<"T","e","l","l"," ","m","e"," ","m","o","r","e"," ","a","b","o","u","t"," ","y","o",
           "u","r"," ","c","h","i","l","d","h","o","o","d","?">>

\* lines 532-534
familyReply(language) ==
    IF language = Str(<<"u","r","-","P","K">>)
    THEN
         <<"u0622","u067E"," ","u06A9","u06D2"," ","u062E","u0627","u0646","u062F","u0627",
           "u0646"," ","u06A9","u06D2"," ","u0628","u0627","u0631","u06D2"," ","u0645","u06CC",
           "u06BA"," ","u0645","u0632","u06CC","u062F"," ","u0628","u062A","u0627","u0626",
           "u06CC","u06BA","u061F">>
    ELSE
         <<"T","e","l","l"," ","m","e"," ","m","o","r","e"," ","a","b","o","u","t"," ","y","o",
           "u","r"," ","f","a","m","i","l","y","?">>

\* lines 536-538
workReply(language) ==
    IF language = Str(<<"u","r","-","P","K">>)
    THEN
         <<"u0622","u067E"," ","u06A9","u06D2"," ","u06A9","u0627","u0645"," ","u06A9","u06D2",
           " ","u0628","u0627","u0631","u06D2"," ","u0645","u06CC","u06BA"," ","u0645","u0632",
           "u06CC","u062F"," ","u0628","u062A","u0627","u0626","u06CC","u06BA","u061F">>
    ELSE
         <<"T","e","l","l"," ","m","e"," ","m","o","r","e"," ","a","b","o","u","t"," ","y","o",
           "u","r"," ","w","o","r","k","?">>

\* lines 546-548
questionReply(language) ==
    IF language = Str(<<"u","r","-","P","K">>)
    THEN
         <<"u06CC","u06C1"," ","u0627","u0686","u06BE","u0627"," ","u0633","u0648","u0627",
           "u0644"," ","u06C1","u06D2","!"," ","u0622","u067E"," ","u0627","u0633"," ","u06A9",
           "u06D2"," ","u0628","u0627","u0631","u06D2"," ","u0645","u06CC","u06BA"," ","u06A9",
           "u06CC","u0627"," ","u0633","u0648","u0686","u062A","u06D2"," ","u06C1","u06CC",
           "u06BA","u061F">>
    ELSE
         <<"T","h","a","t","'","s"," ","a"," ","g","o","o","d"," ","q","u","e","s","t","i","o",
           "n","!"," ","W","h","a","t"," ","d","o"," ","y","o","u"," ","t","h","i","n","k"," ",
           "a","b","o","u","t"," ","t","h","a","t","?">>

\* lines 551-553
shortReply(language) ==
    IF language = Str(<<"u","r","-","P","K">>)
    THEN
         <<"u0648","u06C1"," ","u06A9","u06CC","u0633","u0627"," ","u062A","u06BE","u0627",
           "u061F">>
    ELSE
         <<"W","h","a","t"," ","w","a","s"," ","t","h","a","t"," ","l","i","k","e","?">>

\* lines 556-558
longReply(language) ==
    IF language = Str(<<"u","r","-","P","K">>)
    THEN
         <<"u06CC","u06C1"," ","u0628","u06C1","u062A"," ","u062F","u0644","u0686","u0633",
           "u067E"," ","u06C1","u06D2","!"," ","u067E","u06BE","u0631"," ","u06A9","u06CC",
           "u0627"," ","u06C1","u0648","u0627","u061F">>
    ELSE
         <<"T","h","a","t","'","s"," ","i","n","t","e","r","e","s","t","i","n","g","!"," ","W",
           "h","a","t"," ","h","a","p","p","e","n","e","d"," ","n","e","x","t","?">>

(***************************************************************************)
(* The contextual fallback (src/worker.js 502-562).                        *)
(***************************************************************************)
\* message.match(/(?:my name is|i'm|i am|...)\s+(\w+)/i): the captured name
\* of the leftmost match, '' when there is none (lines 518-519)
nameMatch(message) ==
    LET lower == toLowerCase(message)
        alternatives == << <<"m","y"," ","n","a","m","e"," ","i","s">>,
                           <<"i","'","m">>,
                           <<"i"," ","a","m">>,
                           <<"u0645","u06CC","u0631","u0627"," ","u0646","u0627","u0645">> >>
        WordChars == Range(UpperCase) \cup Range(LowerCase) \cup Range(Digits) \cup {"_"}
        after(i, a) == DropFirst(message, i + Len(alternatives[a]) - 1)
        gap(i, a) == LeadingRun(after(i, a), Whitespace)
        word(i, a) == LET w == DropFirst(after(i, a), gap(i, a))
                      IN  TakeFirst(w, LeadingRun(w, WordChars))
        matches(i, a) ==
            /\ MatchesAt(lower, alternatives[a], i)
            /\ gap(i, a) >= 1
            /\ word(i, a) # <<>>
        hits == { i \in 1..Len(message) : \E a \in DOMAIN alternatives : matches(i, a) }
    IN  IF hits = {} THEN <<>>
        ELSE LET i == CHOOSE h \in hits : \A g \in hits : h <= g
                 a == CHOOSE x \in DOMAIN alternatives :
                         /\ matches(i, x)
                         /\ \A y \in 1..(x-1) : ~matches(i, y)
             IN  word(i, a)

\* lines 502-562: the reply when no source gave one, Thrown when reading the
\* last history entry's user text throws
contextualResponse(message, language, recentHistory) ==
    LET lowerMessage == toLowerCase(message)
        has(kw) == includes(lowerMessage, kw)
    IN  IF has(<<"h","e","a","r">>) \/ has(<<"t","h","e","r","e">>) \/ has(<<"c","a","n"," ","y","o","u">>)
        THEN Str(hearReply(language))
        ELSE IF has(<<"h","e","l","l","o">>) \/ has(<<"h","i">>) \/ has(<<"h","e","y">>)
        THEN Str(helloReply(language))
        ELSE IF has(<<"n","a","m","e">>)
        THEN LET name == nameMatch(message)
             IN  IF name # <<>>
                 THEN Str(namedReplyHead(language) \o name \o namedReplyTail(language))
                 ELSE Str(unnamedReply(language))
        ELSE IF Len(recentHistory) > 0 /\ ~IsString(recentHistory[Len(recentHistory)].user)
        THEN Thrown
        ELSE LET lastTopic == IF Len(recentHistory) > 0
                              THEN toLowerCase(recentHistory[Len(recentHistory)].user.s)
                              ELSE <<>>
                 topic(kw) == includes(lastTopic, kw)
             IN  IF topic(<<"c","h","i","l","d","h","o","o","d">>) \/ topic(<<"g","r","e","w"," ","u","p">>)
                 THEN Str(childhoodReply(language))
                 ELSE IF topic(<<"f","a","m","i","l","y">>) \/ topic(<<"p","a","r","e","n","t">>)
                 THEN Str(familyReply(language))
                 ELSE IF topic(<<"w","o","r","k">>) \/ topic(<<"j","o","b">>)
                 THEN Str(workReply(language))
                 ELSE IF includes(message, <<"?">>)
                 THEN Str(questionReply(language))
                 ELSE IF splitWhitespaceLength(lowerMessage) < 5
                 THEN Str(shortReply(language))
                 ELSE Str(longReply(language))


(***************************************************************************)
(* The inputs the model draws from.                                        *)
(***************************************************************************)
\* texts a source may answer with
SourceTexts ==
    { <<>>,
      <<"o","k">>,
      <<"1","2","3","4">>,
      <<"1","2","3","4","5","6">>,
      <<"a","b","c","d">>,
      <<"i"," ","s","e","e">>,
      <<"-"," ","a","b">>,
      <<"t","e","l","l"," ","m","e"," ","m","o","r","e">>,
      <<"\"","h","i"," ","y","o","u","\"">>,
      <<":"," ","s","o"," ","t","r","u","e"," ">>,
      <<"A","I",":"," ","g","o","o","d"," ","d","a","y","\n","H","u","m","a","n",":"," ","x">> }

\* every answer of a source, and those of an unreachable one
SourceReplies ==
    { SourceReply(n, "null", <<>>) : n \in {"throw", "503", "error"} }
    \cup { SourceReply("ok", sh, <<>>) : sh \in {"unrecognized", "null", "bad_json"} }
    \cup { SourceReply("ok", sh, tx) :
             sh \in Shapes \ {"unrecognized", "null", "bad_json"}, tx \in SourceTexts }

UnreachableReplies == { rep \in SourceReplies : rep.net # "ok" }

\* values of the message field: absent, '', a number, and texts that reach
\* each branch of the fallback
InvalidMessages == { Undefined, Str(<<>>), Num(<<"5">>) }

ValidMessages ==
    { Str(<<"h","i">>),
      Str(<<"c","a","n"," ","y","o","u"," ","h","e","a","r"," ","m","e">>),
      Str(<<"m","y"," ","n","a","m","e"," ","i","s"," ","S","a","r","a">>),
      Str(<<"I"," ","a","m"," ","S","a","r","a">>),
      Str(<<"s","o">>),
      Str(<<"w","h","y"," ","s","o","?">>),
      Str(<<"w","e"," ","h","a","d"," ","a"," ","b","i","g"," ","f","a","r","m">>) }

Languages == { Undefined, Str(<<"u","r","-","P","K">>) }

\* an entry {user, ai} of conversationHistory
Entry(user, ai) == [t |-> "object", user |-> user, ai |-> ai]

\* the entries {} and null
EmptyEntry == [t |-> "object", user |-> Undefined, ai |-> Undefined]

NullEntry == [t |-> "null", user |-> Undefined, ai |-> Undefined]

\* values of the conversationHistory field
NoHistory == [t |-> "undefined", items |-> <<>>]

NullHistory == [t |-> "null", items |-> <<>>]

History(items) == [t |-> "array", items |-> items]

Histories ==
    LET ok == Str(<<"o","k">>)
        family == Entry(Str(<<"m","y"," ","f","a","m","i","l","y">>), ok)
        grewUp == Entry(Str(<<"I"," ","g","r","e","w"," ","u","p"," ","t","h","e","r","e">>), ok)
        job    == Entry(Str(<<"m","y"," ","j","o","b">>), ok)
        plain  == Entry(Str(<<"t","h","e","n">>), ok)
    IN  { NoHistory, NullHistory, History(<<>>),
          History(<<family>>), History(<<grewUp>>), History(<<job>>),
          History(<<family, plain>>),
          History(<<EmptyEntry>>), History(<<NullEntry>>) }

SessionIds == { Undefined, Str(<<>>), Str(<<"s","1">>) }

P1 == Str(<<"p","1">>)

P2 == Str(<<"p","2">>)

PersonIds ==
    { Undefined, Str(<<>>), Str(<<" ">>), Str(<<"d","e","f","a","u","l","t">>),
      P1, Num(<<"5">>) }

\* a request body; the fields an endpoint does not read are undefined
Body(json, message, language, sessionId, history, personId, text, secret) ==
    [ json |-> json, message |-> message, language |-> language,
      sessionId |-> sessionId, conversationHistory |-> history,
      personId |-> personId, text |-> text, secret |-> secret ]

ChatBody(message, language, sessionId, history, personId) ==
    Body(TRUE, message, language, sessionId, history, personId, Undefined, Undefined)

SaveBody(text, language, personId) ==
    Body(TRUE, Undefined, language, Undefined, NoHistory, personId, text, Undefined)

AnalyzeBody(secret, personId) ==
    Body(TRUE, Undefined, Undefined, Undefined, NoHistory, personId, Undefined, secret)

\* the parameters of a read request: the query string of GET /conversations
\* and GET /admin/data (null for a parameter that is absent), the JSON body
\* of POST /admin/query
Params(sessionId, personId, limit, secret, query) ==
    [ json |-> TRUE, sessionId |-> sessionId, personId |-> personId,
      limit |-> limit, secret |-> secret, query |-> query ]

\* a body that is not JSON
BadJson ==
    Body(FALSE, Undefined, Undefined, Undefined, NoHistory, Undefined, Undefined, Undefined)

(***************************************************************************)
(* State.                                                                  *)
(***************************************************************************)
VARIABLES
    reqs,      \* the HTTP requests in flight: each handler's inputs and position
    env,       \* the worker's bindings: DB (bound or not) and ADMIN_SECRET
    db,        \* the D1 database: the conversations and grandma_memories tables
    now,       \* the clock, Date.now()
    upstream   \* "up" or "down": whether the inference API can be reached

vars == <<reqs, env, db, now, upstream>>

NoResponse == [status |-> 0]

\* a request as it arrives
Request(ep, body) ==
    [ ep |-> ep, body |-> body, pc |-> "received",
      modelIndex |-> 0,            \* the modelOptions entry being fetched
      aiResponse |-> Str(<<>>),
      timestamp |-> [iso |-> 0 - 1],
      session |-> Undefined,
      response |-> NoResponse,
      calls |-> <<>>,              \* the models fetched so far, in order
      acceptedAt |-> 0,            \* the call whose text enhanceAIResponse accepted
      accepted |-> Null,           \* and what it returned
      lastOutcome |-> "none",      \* how the last finished call ended
      sawError |-> FALSE,          \* a call ended in a transport or HTTP error
      storeFailed |-> FALSE,       \* a D1 statement of this request threw
      outage |-> FALSE,            \* ... and one threw though the statement was sound
      hasPersonIdColumn |-> FALSE, \* what the probe of GET /conversations found
      inserted |-> 0 ]             \* rows this request added to conversations

\* the conversations table: absent, as schema.sql creates it (no person_id
\* column), or as the worker creates it
NoTable == [exists |-> FALSE, person_id |-> FALSE, rows |-> <<>>]

LegacyTable == [exists |-> TRUE, person_id |-> FALSE, rows |-> <<>>]

CurrentTable == [exists |-> TRUE, person_id |-> TRUE, rows |-> <<>>]

Database(conversations, memories) ==
    [conversations |-> conversations, grandma_memories |-> memories]

Env(bound, secret) == [DB |-> bound, ADMIN_SECRET |-> secret]

ADMIN_KEY == Str(<<"k">>)

(***************************************************************************)
(* handleChat (src/worker.js 283-658), cut at its awaits.                  *)
(***************************************************************************)
\* lines 324-329
modelOptions ==
    << "microsoft/DialoGPT-medium", "microsoft/DialoGPT-large",
       "facebook/blenderbot-400M-distill", "gpt2" >>

\* line 296: language = 'en-US'
languageOf(body) ==
    IF body.language = Undefined THEN Str(<<"e","n","-","U","S">>) ELSE body.language

\* line 296: conversationHistory = []
historyOf(body) ==
    IF body.conversationHistory.t = "undefined" THEN History(<<>>)
    ELSE body.conversationHistory

\* a message check that tests the type alone
isValidMessage_typeOnly(message) == IsString(message)

\* line 298: the message is accepted
isValidMessage(message) == Truthy(message) /\ IsString(message)

\* array.slice(-n)
lastN(items, n) == IF Len(items) <= n THEN items ELSE SubSeq(items, Len(items) - n + 1, Len(items))

\* line 306
recentHistoryOf(history) == lastN(history.items, 7)

\* lines 306-314 throw: slice of a value that is no array, or a read of h.user
\* on a null entry
historyThrows(history) ==
    \/ history.t # "array"
    \/ \E i \in DOMAIN recentHistoryOf(history) : recentHistoryOf(history)[i].t = "null"

\* new Date(ms).toISOString()
toISOString(ms) == [iso |-> ms]

\* JSON.stringify(conversationHistory)
JSONstringify(history) == [json |-> history.items]

errorResponse(status, error) == [status |-> status, success |-> FALSE, error |-> error]

\* a response that returns the sessionId as the request sent it
chatResponse_sessionAsSent(q) ==
    [ status |-> 200, success |-> TRUE, response |-> q.aiResponse,
      sessionId |-> q.body.sessionId, timestamp |-> q.timestamp ]

\* lines 636-650
chatResponse(q) ==
    [ status |-> 200, success |-> TRUE, response |-> q.aiResponse,
      sessionId |-> q.session, timestamp |-> q.timestamp ]

respond(q, response) == [q EXCEPT !.pc = "done", !.response = response]

\* lines 651-657: the outer catch
internalError(q) == respond(q, errorResponse(500, "Internal server error"))

\* line 566
sessionOf(sessionId, clock) ==
    OrElse(sessionId, Str(<<"s","e","s","s","i","o","n","_">> \o numberToString(clock)))

\* lines 615-620 and 636-650: the row is saved and the reply returned
saved(q) == respond(q, chatResponse(q))

\* a save whose error escapes to the outer catch of the handler
dbError_rethrow(q) == internalError(q)

\* lines 621-631 and 636-650: the catch around the save logs the error and
\* the reply is returned all the same
dbError(q) == respond(q, chatResponse(q))

\* lines 565-568 and 632-634: the timestamp and the session, then the first
\* statement of the save, or the response when env.DB is not bound
beginSave(q, clock, bound) ==
    LET stamped == [q EXCEPT !.timestamp = toISOString(clock),
                             !.session = sessionOf(q.body.sessionId, clock)]
    IN  IF bound THEN [stamped EXCEPT !.pc = "create"]
        ELSE respond(stamped, chatResponse(stamped))

\* lines 455 and 502
noResponseYet(aiResponse) == ~Truthy(aiResponse) \/ Len(trim(aiResponse.s)) < 3

\* lines 502-563, then the save
fallbackIfEmpty(q, clock, bound) ==
    IF noResponseYet(q.aiResponse)
    THEN LET reply == contextualResponse(q.body.message.s, languageOf(q.body),
                                         recentHistoryOf(historyOf(q.body)))
         IN  IF reply = Thrown THEN internalError(q)
             ELSE beginSave([q EXCEPT !.aiResponse = reply], clock, bound)
    ELSE beginSave(q, clock, bound)

\* line 361: the fetch of modelOptions[i]
fetchModel(q, i) ==
    [q EXCEPT !.pc = "fetching", !.modelIndex = i, !.calls = Append(@, modelOptions[i])]

\* lines 454-475: after the loop, the fetch of gpt2 when there is no reply
afterLoop(q, clock, bound) ==
    IF noResponseYet(q.aiResponse)
    THEN [q EXCEPT !.pc = "textgen", !.calls = Append(@, "gpt2")]
    ELSE fallbackIfEmpty(q, clock, bound)

\* lines 369-451: what one answer of a source comes to
sourceResult(reply, message, language, history) ==
    IF reply.net # "ok" THEN [class |-> "error", text |-> Null]
    ELSE LET raw == extractRawResponse(reply)
         IN  IF raw = Thrown THEN [class |-> "rejected", text |-> Null]
             ELSE LET rawResponse == cleanRawResponse(raw.s)
                      enhanced == enhanceAIResponse(rawResponse, message, language, history)
                  IN  IF isValidResponse(rawResponse) /\ Truthy(enhanced)
                      THEN [class |-> "accepted", text |-> enhanced]
                      ELSE [class |-> "rejected", text |-> Null]

\* lines 335-452: the loop, resumed with the answer to the fetch in flight
afterSource(q, reply, clock, bound) ==
    LET res == sourceResult(reply, q.body.message.s, languageOf(q.body), historyOf(q.body))
        noted == [q EXCEPT !.lastOutcome = res.class,
                           !.sawError = @ \/ res.class = "error"]
    IN  IF res.class = "accepted"
        THEN afterLoop([noted EXCEPT !.aiResponse = res.text,
                                     !.acceptedAt = Len(q.calls),
                                     !.accepted = res.text], clock, bound)
        ELSE IF q.modelIndex < Len(modelOptions)
        THEN fetchModel(noted, q.modelIndex + 1)
        ELSE afterLoop(noted, clock, bound)

\* lines 477-499: the answer of the text generation fallback
afterTextGen(q, reply, clock, bound) ==
    LET genText == IF reply.net = "ok" THEN extractGenText(reply) ELSE Thrown
        cleaned == IF genText = Thrown THEN <<>> ELSE cleanGenText(genText.s)
        assigned == cleaned # <<>> /\ Len(cleaned) > 5
        enhanced == enhanceAIResponse(cleaned, q.body.message.s, languageOf(q.body),
                                      historyOf(q.body))
        class == IF reply.net # "ok" THEN "error"
                 ELSE IF assigned /\ Truthy(enhanced) THEN "accepted"
                 ELSE "rejected"
        first == class = "accepted" /\ q.acceptedAt = 0
        noted == [q EXCEPT !.lastOutcome = class,
                           !.sawError = @ \/ class = "error",
                           !.aiResponse = IF assigned THEN enhanced ELSE @,
                           !.acceptedAt = IF first THEN Len(q.calls) ELSE @,
                           !.accepted = IF first THEN enhanced ELSE @]
    IN  fallbackIfEmpty(noted, clock, bound)

\* lines 285-314 and the first fetch
handleChat(q) ==
    IF ~q.body.json THEN respond(q, errorResponse(400, "Invalid JSON"))
    ELSE IF ~isValidMessage(q.body.message)
    THEN respond(q, errorResponse(400, "Missing message"))
    ELSE IF historyThrows(historyOf(q.body)) THEN internalError(q)
    ELSE fetchModel(q, 1)

\* a person id that is replaced only when it is falsy
finalPersonId_asSent(personId) ==
    IF ~Truthy(personId) THEN Str(<<"d","e","f","a","u","l","t">>) ELSE personId

\* line 601, Thrown when personId.trim is not a function
finalPersonId(personId) ==
    IF ~Truthy(personId) \/ personId = Str(<<"d","e","f","a","u","l","t">>)
    THEN Str(<<"d","e","f","a","u","l","t">>)
    ELSE IF ~IsString(personId) THEN Thrown
    ELSE IF trim(personId.s) # <<>> THEN personId
    ELSE Str(<<"d","e","f","a","u","l","t">>)

\* lines 600-613: the INSERT is issued, unless finalPersonId throws
prepareInsert(q) ==
    IF finalPersonId(q.body.personId) = Thrown THEN dbError(q)
    ELSE [q EXCEPT !.pc = "insert"]

\* a row that stores the language as the request gave it: nothing when the
\* request named none
turnRow_languageAsSent(q) ==
    [ session_id |-> q.session, user_message |-> q.body.message,
      ai_response |-> q.aiResponse, language |-> q.body.language,
      timestamp |-> q.timestamp, context |-> JSONstringify(historyOf(q.body)),
      person_id |-> finalPersonId(q.body.personId) ]

\* lines 610-613: the row bound to the INSERT
turnRow(q) ==
    [ session_id |-> q.session, user_message |-> q.body.message,
      ai_response |-> q.aiResponse, language |-> languageOf(q.body),
      timestamp |-> q.timestamp, context |-> JSONstringify(historyOf(q.body)),
      person_id |-> finalPersonId(q.body.personId) ]

(***************************************************************************)
(* handleSave (src/worker.js 98-259) and handleAdminAnalyze (967-1092),    *)
(* each taken as one step.                                                 *)
(***************************************************************************)
\* rows.filter(row => row.person_id = personId), as WHERE person_id = ? does
RECURSIVE rowsOf(_, _)
rowsOf(rows, personId) ==
    IF rows = <<>> THEN <<>>
    ELSE IF Head(rows).person_id = personId
    THEN <<Head(rows)>> \o rowsOf(Tail(rows), personId)
    ELSE rowsOf(Tail(rows), personId)

\* ORDER BY timestamp ASC: row goes after the rows that are not later
RECURSIVE insertByTimestamp(_, _)
insertByTimestamp(sorted, row) ==
    IF sorted = <<>> THEN <<row>>
    ELSE IF Head(sorted).timestamp.iso <= row.timestamp.iso
    THEN <<Head(sorted)>> \o insertByTimestamp(Tail(sorted), row)
    ELSE <<row>> \o sorted

RECURSIVE orderByTimestamp(_)
orderByTimestamp(rows) ==
    IF rows = <<>> THEN <<>>
    ELSE insertByTimestamp(orderByTimestamp(SubSeq(rows, 1, Len(rows) - 1)), rows[Len(rows)])

\* lines 172-179: the row handleSave inserts
memoryRow(body, clock) ==
    [ text |-> Str(TakeFirst(trim(body.text.s), 10000)),
      language |-> Str(TakeFirst(trim(body.language.s), 50)),
      timestamp |-> toISOString(clock),
      person_id |-> OrElse(body.personId, Str(<<"d","e","f","a","u","l","t">>)) ]

\* lines 98-259: the response of /save; the row is inserted when it is 200
handleSave(body, bound, memories, createOk, insertOk) ==
    IF ~bound THEN errorResponse(500, "Database not configured")
    ELSE IF ~body.json THEN errorResponse(400, "Invalid JSON in request body")
    ELSE IF ~(Truthy(body.text) /\ IsString(body.text))
    THEN errorResponse(400, "Missing or invalid \"text\" field")
    ELSE IF ~(Truthy(body.language) /\ IsString(body.language))
    THEN errorResponse(400, "Missing or invalid \"language\" field")
    ELSE IF ~createOk \/ ~insertOk \/ (memories.exists /\ ~memories.person_id)
    THEN errorResponse(500, "Failed to save to database")
    ELSE [status |-> 200, success |-> TRUE, id |-> Len(memories.rows) + 1]

\* lines 832, 971 and 1472: what ADMIN_SECRET is taken to be when it is unset
DEFAULT_SECRET ==
    Str(<<"C","H","A","N","G","E","_","T","H","I","S","_","S","E","C","R","E","T","_","K","E","Y">>)

\* lines 969-978: the request presents the admin secret
isAuthorized(body, adminSecret) ==
    LET providedSecret == IF body.json THEN body.secret ELSE Undefined
        expected == OrElse(adminSecret, DEFAULT_SECRET)
    IN  Truthy(providedSecret) /\ providedSecret = expected

\* lines 1002-1012: the person's conversations, none when the probe or the
\* query throws
conversationsOf(table, personId, probeOk) ==
    IF probeOk /\ table.exists /\ table.person_id
    THEN orderByTimestamp(rowsOf(table.rows, personId))
    ELSE <<>>

\* lines 1015-1033: the person's memories, none when a statement throws
memoriesOf(table, personId, memOk) ==
    IF memOk /\ (~table.exists \/ table.person_id)
    THEN orderByTimestamp(rowsOf(table.rows, personId))
    ELSE <<>>

\* a?.timestamp || b?.timestamp over the first (or last) rows
firstTimestamp(conversations, memories) ==
    IF conversations # <<>> THEN conversations[1].timestamp
    ELSE IF memories # <<>> THEN memories[1].timestamp
    ELSE Undefined

lastTimestamp(conversations, memories) ==
    IF conversations # <<>> THEN conversations[Len(conversations)].timestamp
    ELSE IF memories # <<>> THEN memories[Len(memories)].timestamp
    ELSE Undefined

(***************************************************************************)
(* The biography: generatePersonAnalysis (src/worker.js 1098-1218) and     *)
(* generateComprehensiveAnalysis (1224-1290) with the extract* and build*  *)
(* functions (1292-1429).                                                  *)
(***************************************************************************)
\* Array.prototype.join; with the separator '' it concatenates the parts
RECURSIVE join(_, _)
join(list, sep) ==
    IF list = <<>> THEN <<>>
    ELSE IF Len(list) = 1 THEN list[1]
    ELSE list[1] \o sep \o join(Tail(list), sep)

\* String.prototype.split on a character class
RECURSIVE splitOn(_, _)
splitOn(s, delims) ==
    LET at == { i \in 1..Len(s) : s[i] \in delims }
    IN  IF at = {} THEN <<s>>
        ELSE LET k == CHOOSE i \in at : \A j \in at : i <= j
             IN  <<SubSeq(s, 1, k - 1)>> \o splitOn(DropFirst(s, k), delims)

\* new Date(timestamp).getFullYear(), for a timestamp within 1970
getFullYear(timestamp) == 1970 + ((timestamp.iso \div 1000) \div 31536000)

\* new Date(timestamp).toLocaleDateString(), for a timestamp within the first
\* day of the year
toLocaleDateString(timestamp) ==
    <<"1","/","1","/">> \o numberToString(getFullYear(timestamp))

\* lines 1046-1057: conversationText, memoriesText and allText
allTextOf(conversations, memories) ==
    LET conversationText ==
            join([i \in 1..Len(conversations) |->
                    <<"[">> \o toLocaleDateString(conversations[i].timestamp)
                    \o <<"]"," ","U","s","e","r",":"," ">> \o conversations[i].user_message.s
                    \o <<"\n","A","I",":"," ">> \o conversations[i].ai_response.s], <<"\n","\n">>)
        memoriesText ==
            join([i \in 1..Len(memories) |->
                    <<"[">> \o toLocaleDateString(memories[i].timestamp)
                    \o <<"]"," ","M","e","m","o","r","y",":"," ">> \o memories[i].text.s], <<"\n","\n">>)
        parts ==
            (IF memoriesText # <<>>
             THEN << <<"=","=","="," ","S","A","V","E","D"," ","M","E","M","O","R","I","E","S"," ","=","=","=","\n">> \o memoriesText >>
             ELSE <<>>)
            \o (IF conversationText # <<>>
                THEN << <<"=","=","="," ","C","O","N","V","E","R","S","A","T","I","O","N","S"," ","=","=","=","\n">> \o conversationText >>
                ELSE <<>>)
    IN  join(parts, <<"\n","\n">>)

\* only the label of the keyword that comes first in text
labelsIn_firstInText(text, table) ==
    LET pos(k) == IF includes(text, table[k][1])
                  THEN CHOOSE i \in 1..Len(text) :
                          /\ MatchesAt(text, table[k][1], i)
                          /\ \A j \in 1..(i - 1) : ~MatchesAt(text, table[k][1], j)
                  ELSE 0
        hits == { k \in 1..Len(table) : pos(k) > 0 }
    IN  IF hits = {} THEN <<>>
        ELSE <<table[CHOOSE k \in hits : \A h \in hits : pos(k) <= pos(h)][2]>>

\* the labels of the keywords text includes, in the order of the table
labelsIn(text, table) ==
    join([k \in 1..Len(table) |->
            IF includes(text, table[k][1]) THEN <<table[k][2]>> ELSE <<>>], <<>>)

\* lines 1292-1311
extractTopics(text) ==
    LET topicKeywords ==
        << <<<<"c","h","i","l","d","h","o","o","d">>, <<"C","h","i","l","d","h","o","o","d"," ","&"," ","E","a","r","l","y"," ","Y","e","a","r","s">>>>,
           <<<<"f","a","m","i","l","y">>, <<"F","a","m","i","l","y">>>>,
           <<<<"w","o","r","k">>, <<"W","o","r","k"," ","&"," ","C","a","r","e","e","r">>>>,
           <<<<"s","c","h","o","o","l">>, <<"E","d","u","c","a","t","i","o","n">>>>,
           <<<<"t","r","a","v","e","l">>, <<"T","r","a","v","e","l"," ","&"," ","A","d","v","e","n","t","u","r","e","s">>>>,
           <<<<"m","a","r","r","i","a","g","e">>, <<"M","a","r","r","i","a","g","e"," ","&"," ","R","e","l","a","t","i","o","n","s","h","i","p","s">>>>,
           <<<<"f","r","i","e","n","d","s">>, <<"F","r","i","e","n","d","s","h","i","p","s">>>>,
           <<<<"h","o","b","b","i","e","s">>, <<"H","o","b","b","i","e","s"," ","&"," ","I","n","t","e","r","e","s","t","s">>>>,
           <<<<"h","e","a","l","t","h">>, <<"H","e","a","l","t","h"," ","&"," ","W","e","l","l","n","e","s","s">>>>,
           <<<<"r","e","l","i","g","i","o","n">>, <<"R","e","l","i","g","i","o","n"," ","&"," ","S","p","i","r","i","t","u","a","l","i","t","y">>>> >>
        found == labelsIn(text, topicKeywords)
    IN  IF Len(found) > 0 THEN found
        ELSE << <<"L","i","f","e"," ","E","x","p","e","r","i","e","n","c","e","s">>, <<"P","e","r","s","o","n","a","l"," ","S","t","o","r","i","e","s">> >>

\* lines 1313-1328
extractLifeEvents(text, entries) ==
    LET eventKeywords ==
        << <<"b","o","r","n">>,
           <<"g","r","a","d","u","a","t","e","d">>,
           <<"m","a","r","r","i","e","d">>,
           <<"m","o","v","e","d">>,
           <<"s","t","a","r","t","e","d">>,
           <<"r","e","t","i","r","e","d">>,
           <<"t","r","a","v","e","l","e","d">>,
           <<"m","e","t">> >>
        sentences(entry) == splitOn(entry.text, {".", "!", "?"})
        found(entry, keyword) ==
            { i \in DOMAIN sentences(entry) :
                includes(toLowerCase(sentences(entry)[i]), keyword) }
        sentence(entry, keyword) ==
            sentences(entry)[CHOOSE i \in found(entry, keyword) :
                                \A j \in found(entry, keyword) : i <= j]
        eventsOf(entry) ==
            join([k \in 1..Len(eventKeywords) |->
                    IF /\ includes(toLowerCase(entry.text), eventKeywords[k])
                       /\ found(entry, eventKeywords[k]) # {}
                       /\ sentence(entry, eventKeywords[k]) # <<>>
                    THEN <<trim(sentence(entry, eventKeywords[k]))>>
                    ELSE <<>>], <<>>)
    IN  TakeFirst(join([e \in 1..Len(entries) |-> eventsOf(entries[e])], <<>>), 20)

\* lines 1330-1341
extractRelationships(text) ==
    LET relKeywords ==
        << <<"m","o","t","h","e","r">>,
           <<"f","a","t","h","e","r">>,
           <<"w","i","f","e">>,
           <<"h","u","s","b","a","n","d">>,
           <<"s","o","n">>,
           <<"d","a","u","g","h","t","e","r">>,
           <<"b","r","o","t","h","e","r">>,
           <<"s","i","s","t","e","r">>,
           <<"f","r","i","e","n","d">>,
           <<"g","r","a","n","d","m","o","t","h","e","r">>,
           <<"g","r","a","n","d","f","a","t","h","e","r">> >>
        upper(c) == IF \E i \in DOMAIN LowerCase : LowerCase[i] = c
                    THEN UpperCase[CHOOSE i \in DOMAIN LowerCase : LowerCase[i] = c]
                    ELSE c
        capitalized(keyword) == <<upper(keyword[1])>> \o DropFirst(keyword, 1)
    IN  join([k \in 1..Len(relKeywords) |->
                IF includes(text, relKeywords[k])
                THEN <<capitalized(relKeywords[k])>> ELSE <<>>], <<>>)

\* lines 1343-1363
extractPersonality(text) ==
    LET traitKeywords ==
        << <<<<"k","i","n","d">>, <<"K","i","n","d">>>>,
           <<<<"p","a","t","i","e","n","t">>, <<"P","a","t","i","e","n","t">>>>,
           <<<<"c","u","r","i","o","u","s">>, <<"C","u","r","i","o","u","s">>>>,
           <<<<"h","a","r","d","w","o","r","k","i","n","g">>, <<"H","a","r","d","w","o","r","k","i","n","g">>>>,
           <<<<"l","o","v","i","n","g">>, <<"L","o","v","i","n","g">>>>,
           <<<<"f","u","n","n","y">>, <<"H","u","m","o","r","o","u","s">>>>,
           <<<<"c","r","e","a","t","i","v","e">>, <<"C","r","e","a","t","i","v","e">>>>,
           <<<<"b","r","a","v","e">>, <<"B","r","a","v","e">>>>,
           <<<<"w","i","s","e">>, <<"W","i","s","e">>>>,
           <<<<"g","e","n","e","r","o","u","s">>, <<"G","e","n","e","r","o","u","s">>>> >>
        traits == labelsIn(text, traitKeywords)
    IN  IF Len(traits) > 0 THEN traits
        ELSE << <<"T","h","o","u","g","h","t","f","u","l">>, <<"R","e","f","l","e","c","t","i","v","e">> >>

\* lines 1365-1383
extractValues(text) ==
    LET valueKeywords ==
        << <<<<"f","a","m","i","l","y">>, <<"F","a","m","i","l","y">>>>,
           <<<<"h","o","n","e","s","t","y">>, <<"H","o","n","e","s","t","y">>>>,
           <<<<"h","a","r","d"," ","w","o","r","k">>, <<"H","a","r","d"," ","W","o","r","k">>>>,
           <<<<"e","d","u","c","a","t","i","o","n">>, <<"E","d","u","c","a","t","i","o","n">>>>,
           <<<<"f","a","i","t","h">>, <<"F","a","i","t","h">>>>,
           <<<<"r","e","s","p","e","c","t">>, <<"R","e","s","p","e","c","t">>>>,
           <<<<"l","o","v","e">>, <<"L","o","v","e">>>>,
           <<<<"t","r","a","d","i","t","i","o","n">>, <<"T","r","a","d","i","t","i","o","n">>>> >>
        values == labelsIn(text, valueKeywords)
    IN  IF Len(values) > 0 THEN values
        ELSE << <<"P","e","r","s","o","n","a","l"," ","G","r","o","w","t","h">>, <<"C","o","n","n","e","c","t","i","o","n">> >>

\* lines 1385-1391
extractStories(entries) ==
    LET long(e) == Len(e.text) > 100
        stories == SelectSeq(entries, long)
    IN  TakeFirst([i \in 1..Len(stories) |-> TakeFirst(stories[i].text, 300)], 15)

\* lines 1393-1396
buildIntroduction(conversations, memories, topics) ==
    LET totalEntries == Len(conversations) + Len(memories)
    IN
        <<"T","h","i","s"," ","i","s"," ","a"," ","c","o","m","p","r","e","h","e","n","s",
          "i","v","e"," ","b","i","o","g","r","a","p","h","y"," ","c","o","m","p","i","l",
          "e","d"," ","f","r","o","m"," ">>
        \o numberToString(totalEntries)
        \o <<" ","c","o","n","v","e","r","s","a","t","i","o","n","s"," ","a","n","d"," ">>
        \o numberToString(Len(memories))
        \o
        <<" ","s","a","v","e","d"," ","m","e","m","o","r","i","e","s","."," ","T","h","e",
          " ","p","e","r","s","o","n"," ","s","h","a","r","e","d"," ","s","t","o","r","i",
          "e","s"," ","a","b","o","u","t"," ">>
        \o join(TakeFirst(topics, 3), <<",", " ">>)
        \o
        <<" ","a","n","d"," ","m","a","n","y"," ","o","t","h","e","r"," ","a","s","p","e",
          "c","t","s"," ","o","f"," ","t","h","e","i","r"," ","l","i","f","e","."," ","T",
          "h","i","s"," ","b","o","o","k"," ","c","a","p","t","u","r","e","s"," ","t","h",
          "e","i","r"," ","e","s","s","e","n","c","e",","," ","e","x","p","e","r","i","e",
          "n","c","e","s",","," ","a","n","d"," ","t","h","e"," ","w","i","s","d","o","m",
          " ","t","h","e","y","'","v","e"," ","g","a","t","h","e","r","e","d"," ","o","v",
          "e","r"," ","t","h","e"," ","y","e","a","r","s",".">>

\* lines 1398-1404
buildEarlyLifeSection(text, events) ==
    LET early(e) == \/ includes(toLowerCase(e), <<"c","h","i","l","d">>)
                    \/ includes(toLowerCase(e), <<"g","r","e","w"," ","u","p">>)
                    \/ includes(toLowerCase(e), <<"s","c","h","o","o","l">>)
        earlyEvents == SelectSeq(events, early)
    IN  IF Len(earlyEvents) > 0
        THEN
             <<"E","a","r","l","y"," ","l","i","f","e"," ","w","a","s"," ","m","a","r","k",
               "e","d"," ","b","y"," ","s","i","g","n","i","f","i","c","a","n","t"," ","e",
               "x","p","e","r","i","e","n","c","e","s",":"," ">>
             \o join(TakeFirst(earlyEvents, 3), <<".", " ">>) \o <<".", " ">>
             \o (IF includes(text, <<"c","h","i","l","d","h","o","o","d">>)
                 THEN
                     <<"T","h","e","i","r"," ","c","h","i","l","d","h","o","o","d"," ","s",
                       "t","o","r","i","e","s"," ","r","e","v","e","a","l"," ","a"," ","r",
                       "i","c","h"," ","t","a","p","e","s","t","r","y"," ","o","f"," ","m",
                       "e","m","o","r","i","e","s"," ","a","n","d"," ","f","o","r","m","a",
                       "t","i","v","e"," ","e","x","p","e","r","i","e","n","c","e","s",".">>
                 ELSE <<>>)
        ELSE
             <<"E","a","r","l","y"," ","l","i","f","e"," ","d","e","t","a","i","l","s"," ",
               "w","e","r","e"," ","s","h","a","r","e","d"," ","t","h","r","o","u","g","h",
               " ","c","o","n","v","e","r","s","a","t","i","o","n","s",","," ","r","e","v",
               "e","a","l","i","n","g"," ","f","o","r","m","a","t","i","v","e"," ","y","e",
               "a","r","s"," ","a","n","d"," ","c","h","i","l","d","h","o","o","d"," ","e",
               "x","p","e","r","i","e","n","c","e","s",".">>

\* lines 1406-1408
buildPersonalitySection(personality, text) ==
    <<"T","h","i","s"," ","p","e","r","s","o","n"," ","d","e","m","o","n","s","t","r","a",
      "t","e","s"," ">>
    \o join(TakeFirst(personality, 5), <<",", " ">>)
    \o
    <<"."," ","T","h","e","i","r"," ","p","e","r","s","o","n","a","l","i","t","y"," ","s",
      "h","i","n","e","s"," ","t","h","r","o","u","g","h"," ","i","n"," ","h","o","w"," ",
      "t","h","e","y"," ","t","e","l","l"," ","s","t","o","r","i","e","s",","," ","i","n",
      "t","e","r","a","c","t"," ","w","i","t","h"," ","o","t","h","e","r","s",","," ","a",
      "n","d"," ","r","e","f","l","e","c","t"," ","o","n"," ","t","h","e","i","r"," ","e",
      "x","p","e","r","i","e","n","c","e","s",".">>

\* lines 1410-1413
buildLifeJourneySection(events, entries) ==
    LET first == TakeFirst(entries, 20)
        chronological ==
            join([i \in 1..Len(first) |->
                    <<"[">> \o numberToString(getFullYear(first[i].date)) \o <<"]", " ">>
                    \o TakeFirst(first[i].text, 150)], <<"\n","\n">>)
    IN
        <<"L","i","f","e","'","s"," ","j","o","u","r","n","e","y"," ","u","n","f","o","l",
          "d","e","d"," ","t","h","r","o","u","g","h"," ","m","a","n","y"," ","c","h","a",
          "p","t","e","r","s",":","\n","\n">>
        \o chronological

\* lines 1415-1417
buildRelationshipsSection(relationships, text) ==
    <<"I","m","p","o","r","t","a","n","t"," ","r","e","l","a","t","i","o","n","s","h","i",
      "p","s"," ","i","n","c","l","u","d","e","d"," ">>
    \o join(TakeFirst(relationships, 5), <<",", " ">>)
    \o
    <<"."," ","T","h","e","s","e"," ","c","o","n","n","e","c","t","i","o","n","s"," ","s",
      "h","a","p","e","d"," ","t","h","e","i","r"," ","l","i","f","e"," ","a","n","d"," ",
      "p","r","o","v","i","d","e","d"," ","s","u","p","p","o","r","t",","," ","l","o","v",
      "e",","," ","a","n","d"," ","c","o","m","p","a","n","i","o","n","s","h","i","p"," ",
      "t","h","r","o","u","g","h","o","u","t"," ","t","h","e"," ","y","e","a","r","s",".">>

\* lines 1419-1421
buildValuesSection(values, text) ==
    <<"C","o","r","e"," ","v","a","l","u","e","s"," ","t","h","a","t"," ","g","u","i","d",
      "e","d"," ","t","h","e","i","r"," ","l","i","f","e"," ","i","n","c","l","u","d","e",
      " ">>
    \o join(TakeFirst(values, 5), <<",", " ">>)
    \o
    <<"."," ","T","h","e","s","e"," ","p","r","i","n","c","i","p","l","e","s"," ","i","n",
      "f","l","u","e","n","c","e","d"," ","t","h","e","i","r"," ","d","e","c","i","s","i",
      "o","n","s"," ","a","n","d"," ","h","o","w"," ","t","h","e","y"," ","l","i","v","e",
      "d",".">>

\* lines 1423-1425
buildStoriesSection(stories) ==
    join([i \in 1..Len(stories) |->
            <<"S","t","o","r","y"," ">> \o numberToString(i) \o <<":", " ">>
            \o stories[i] \o <<".", ".", ".">>], <<"\n","\n">>)

\* lines 1427-1429
buildConclusion(topics, personality, values) ==
    <<"T","h","i","s"," ","b","i","o","g","r","a","p","h","y"," ","c","a","p","t","u","r",
      "e","s"," ","t","h","e"," ","e","s","s","e","n","c","e"," ","o","f"," ","a"," ","l",
      "i","f","e"," ","w","e","l","l","-","l","i","v","e","d",","," ","f","i","l","l","e",
      "d"," ","w","i","t","h"," ">>
    \o join(TakeFirst(topics, 2), <<" ","a","n","d"," ">>)
    \o <<","," ","c","h","a","r","a","c","t","e","r","i","z","e","d"," ","b","y"," ">>
    \o join(TakeFirst(personality, 2), <<" ","a","n","d"," ">>)
    \o <<","," ","a","n","d"," ","g","u","i","d","e","d"," ","b","y"," ","v","a","l","u","e","s"," ","o","f"," ">>
    \o join(TakeFirst(values, 2), <<" ","a","n","d"," ">>)
    \o
    <<"."," ","T","h","e","i","r"," ","s","t","o","r","i","e","s"," ","a","n","d"," ","m",
      "e","m","o","r","i","e","s"," ","f","o","r","m"," ","a"," ","r","i","c","h"," ","l",
      "e","g","a","c","y",".">>

\* an entry list that keeps the conversations before the memories, unsorted
allEntriesOf_unsorted(conversations, memories) ==
    LET rows == conversations \o memories
    IN  [i \in 1..Len(rows) |->
           IF "user_message" \in DOMAIN rows[i]
           THEN [ type |-> "conversation",
                  text |-> rows[i].user_message.s \o <<" ">> \o rows[i].ai_response.s,
                  date |-> rows[i].timestamp ]
           ELSE [ type |-> "memory", text |-> rows[i].text.s, date |-> rows[i].timestamp ]]

\* lines 1228-1231: allEntries, one entry per conversation and per memory,
\* sorted by date
allEntriesOf(conversations, memories) ==
    LET rows == orderByTimestamp(conversations \o memories)
    IN  [i \in 1..Len(rows) |->
           IF "user_message" \in DOMAIN rows[i]
           THEN [ type |-> "conversation",
                  text |-> rows[i].user_message.s \o <<" ">> \o rows[i].ai_response.s,
                  date |-> rows[i].timestamp ]
           ELSE [ type |-> "memory", text |-> rows[i].text.s, date |-> rows[i].timestamp ]]

\* lines 1224-1264: the document assembled from the rows; the rows the store
\* holds carry strings, so nothing in the try block throws
generateComprehensiveAnalysis(conversations, memories, allText) ==
    LET result(book, topics, events, relationships, personality, values, stories) ==
            [ kind |-> "book",
              book |-> book,
              summary |-> TakeFirst(book.introduction, 300),
              topics |-> TakeFirst(topics, 10),
              personality |-> TakeFirst(personality, 10),
              lifeEvents |-> TakeFirst(events, 15),
              relationships |-> TakeFirst(relationships, 10),
              values |-> TakeFirst(values, 8),
              stories |-> TakeFirst(stories, 10) ]
        themesOf(joined) == IF joined # <<>> THEN joined
                            ELSE <<"L","i","f","e"," ","e","x","p","e","r","i","e","n","c","e","s">>
        assemble(text, allEntries, topics, events, relationships, personality, values, stories) ==
            result([ title |-> <<"T","h","e"," ","L","i","f","e"," ","S","t","o","r","y">>,
                     introduction |-> buildIntroduction(conversations, memories, topics),
                     earlyLife |-> buildEarlyLifeSection(text, events),
                     personality |-> buildPersonalitySection(personality, text),
                     lifeJourney |-> buildLifeJourneySection(events, allEntries),
                     relationships |-> buildRelationshipsSection(relationships, text),
                     values |-> buildValuesSection(values, text),
                     stories |-> buildStoriesSection(stories),
                     themes |-> themesOf(join(topics, <<",", " ">>)),
                     conclusion |-> buildConclusion(topics, personality, values) ],
                   topics, events, relationships, personality, values, stories)
        extract(text, allEntries) ==
            assemble(text, allEntries, extractTopics(text), extractLifeEvents(text, allEntries),
                     extractRelationships(text), extractPersonality(text), extractValues(text),
                     extractStories(allEntries))
    IN  extract(toLowerCase(allText), allEntriesOf(conversations, memories))

\* JSON.parse of the text aiAnalysis.match(/\{[\s\S]*\}/) finds (lines
\* 1168-1170): the object {} or {"key":"value"}, Thrown for any other text
JSONparse(match) ==
    LET inner == SubSeq(match, 2, Len(match) - 1)
        plain(s) == \A i \in DOMAIN s : s[i] \notin {"\"", "\\", "\n"}
        sep == <<"\"", ":", "\"">>
        cuts == { i \in 2..(Len(inner) - 3) :
                    /\ MatchesAt(inner, sep, i)
                    /\ plain(SubSeq(inner, 2, i - 1))
                    /\ plain(SubSeq(inner, i + 3, Len(inner) - 1)) }
    IN  IF inner = <<>> THEN [kind |-> "parsed", pairs |-> <<>>]
        ELSE IF Len(inner) >= 5 /\ inner[1] = "\"" /\ inner[Len(inner)] = "\"" /\ cuts # {}
        THEN LET i == CHOOSE c \in cuts : TRUE
             IN  [ kind |-> "parsed",
                   pairs |-> << <<SubSeq(inner, 2, i - 1), SubSeq(inner, i + 3, Len(inner) - 1)>> >> ]
        ELSE Thrown

\* every answer of the long-form generator
GeneratorReplies ==
    LET texts ==
            { <<>>,
              <<"n","o"," ","j","s","o","n">>,
              <<"{","x","}">>,
              <<"{","}">>,
              <<"s","a","y"," ","{","\"","s","u","m","m","a","r","y","\"",":","\"","o","k","\"","}"," ","e","n","d">> }
    IN  { SourceReply(n, "null", <<>>) : n \in {"throw", "503", "error"} }
        \cup { SourceReply("ok", sh, <<>>) : sh \in {"unrecognized", "null", "bad_json"} }
        \cup { SourceReply("ok", sh, tx) :
                 sh \in {"generated_text", "array_generated_text"}, tx \in texts }

\* an analysis whose catch lets the error of the fetch escape
generatePersonAnalysis_rethrow(personId, conversations, memories, allText, reply) ==
    IF reply.net = "throw" \/ (reply.net = "ok" /\ reply.shape \in {"null", "bad_json"})
    THEN Thrown
    ELSE generateComprehensiveAnalysis(conversations, memories, allText)

\* lines 1150-1218: the answer of the generator when it parses or reads as
\* text, the assembled document when the fetch, the status or the body fails
generatePersonAnalysis(personId, conversations, memories, allText, reply) ==
    LET first(set) == CHOOSE i \in set : \A j \in set : i <= j
        last(set) == CHOOSE i \in set : \A j \in set : j <= i
        textAnalysis(aiAnalysis) ==
            [ kind |-> "text",
              summary |-> TakeFirst(aiAnalysis, 500),
              rawAnalysis |-> aiAnalysis,
              note |-> <<"A","I"," ","a","n","a","l","y","s","i","s"," ","g","e","n","e","r","a",
                         "t","e","d","."," ","P","a","r","s","e"," ","m","a","n","u","a","l","l",
                         "y"," ","i","f"," ","n","e","e","d","e","d",".">> ]
        orText(parsed, aiAnalysis) ==
            IF parsed # Thrown THEN parsed ELSE textAnalysis(aiAnalysis)
        between(aiAnalysis, opens, closes) ==
            IF opens # {} /\ closes # {} /\ first(opens) < last(closes)
            THEN orText(JSONparse(SubSeq(aiAnalysis, first(opens), last(closes))), aiAnalysis)
            ELSE textAnalysis(aiAnalysis)
        answered(aiAnalysis) ==
            between(aiAnalysis, { i \in DOMAIN aiAnalysis : aiAnalysis[i] = "{" },
                                { i \in DOMAIN aiAnalysis : aiAnalysis[i] = "}" })
    IN  IF reply.net # "ok" \/ reply.shape \in {"null", "bad_json"}
        THEN generateComprehensiveAnalysis(conversations, memories, allText)
        ELSE answered(IF reply.shape \in {"generated_text", "array_generated_text"}
                      THEN reply.text ELSE <<>>)

\* lines 967-1092: the response of /admin/analyze; reply is the answer of the
\* long-form generator
handleAdminAnalyze(body, bindings, store, probeOk, memOk, reply) ==
    LET document(conversations, memories, analysis) ==
            IF analysis = Thrown THEN errorResponse(500, "Internal server error")
            ELSE [ status |-> 200, success |-> TRUE, personId |-> body.personId,
                   analysis |-> analysis,
                   stats |-> [ totalConversations |-> Len(conversations),
                               totalMemories |-> Len(memories),
                               totalMessages |-> Len(conversations) * 2,
                               dateRange |-> [ first |-> firstTimestamp(conversations, memories),
                                               last |-> lastTimestamp(conversations, memories) ] ] ]
        analyze(conversations, memories) ==
            IF Len(conversations) = 0 /\ Len(memories) = 0
            THEN errorResponse(404, "No conversations or memories found for this person")
            ELSE document(conversations, memories,
                          generatePersonAnalysis(body.personId, conversations, memories,
                                                 allTextOf(conversations, memories), reply))
    IN  IF ~isAuthorized(body, bindings.ADMIN_SECRET)
        THEN errorResponse(401, "Unauthorized. Provide secret in body or header")
        ELSE IF ~Truthy(body.personId) THEN errorResponse(400, "personId required")
        ELSE IF ~bindings.DB THEN errorResponse(500, "Database not configured")
        ELSE analyze(conversationsOf(store.conversations, body.personId, probeOk),
                     memoriesOf(store.grandma_memories, body.personId, memOk))

(***************************************************************************)
(* The read endpoints: handleGetConversations (src/worker.js 698-765),     *)
(* handleAdminGetData (844-961) and handleAdminQuery (1469-1543).          *)
(***************************************************************************)
\* ORDER BY timestamp DESC
orderByTimestampDesc(rows) ==
    LET asc == orderByTimestamp(rows)
    IN  [i \in 1..Len(asc) |-> asc[Len(asc) + 1 - i]]

\* GET /conversations: lines 700-719 up to the probe of the person_id column,
\* then lines 721-764, the SELECT and the response
handleGetConversations(q, bound, table) ==
    LET \* line 709: parseInt of a string of digits
        RECURSIVE parseInt(_)
        parseInt(s) ==
            IF s = <<>> THEN 0
            ELSE 10 * parseInt(SubSeq(s, 1, Len(s) - 1))
                 + (CHOOSE d \in 0..9 : Digits[d + 1] = s[Len(s)])
        sessionId == q.body.sessionId
        personId == q.body.personId
        limit == parseInt(OrElse(q.body.limit, Str(<<"1","0","0">>)).s)
        matches(row) ==
            /\ Truthy(sessionId) => row.session_id = sessionId
            /\ (Truthy(personId) /\ q.hasPersonIdColumn) => row.person_id = personId
        result == orderByTimestampDesc(SelectSeq(table.rows, matches))
    IN  IF q.pc = "received"
        THEN IF ~bound THEN respond(q, errorResponse(500, "Database not configured"))
             ELSE [q EXCEPT !.pc = "select",
                            !.hasPersonIdColumn = table.exists /\ table.person_id]
        ELSE IF ~table.exists
        THEN respond(q, errorResponse(500, "Internal server error"))
        ELSE respond(q, [status |-> 200, success |-> TRUE,
                         conversations |-> TakeFirst(result, limit)])

\* GET /admin/data
handleAdminGetData(params, bindings, store) ==
    LET \* lines 867-905: the person's rows, or every row when no person is
        \* named; none when the statement throws
        selectAll(table, personId) ==
            IF ~table.exists THEN <<>>
            ELSE IF ~Truthy(personId) THEN orderByTimestamp(table.rows)
            ELSE IF table.person_id THEN orderByTimestamp(rowsOf(table.rows, personId))
            ELSE <<>>
        \* lines 907-918: SELECT DISTINCT person_id, the ids in the order of
        \* their first rows
        RECURSIVE distinctPeople(_)
        distinctPeople(rows) ==
            IF rows = <<>> THEN <<>>
            ELSE LET before == distinctPeople(SubSeq(rows, 1, Len(rows) - 1))
                     id == rows[Len(rows)].person_id
                 IN  IF id \in Range(before) \/ id.t \in {"null", "undefined"} \/ id = Str(<<>>)
                     THEN before ELSE Append(before, id)
        providedSecret == params.secret
        adminSecret == bindings.ADMIN_SECRET
        found(conversations, memories) ==
            [ status |-> 200, success |-> TRUE,
              conversations |-> conversations, memories |-> memories,
              people |-> IF store.conversations.exists /\ store.conversations.person_id
                         THEN distinctPeople(store.conversations.rows) ELSE <<>>,
              totalConversations |-> Len(conversations),
              totalMemories |-> Len(memories) ]
    IN  IF ~Truthy(adminSecret)
        THEN errorResponse(500, "Admin secret not configured. Please set ADMIN_SECRET in Cloudflare Worker environment variables.")
        ELSE IF ~Truthy(providedSecret) \/ providedSecret # adminSecret
        THEN errorResponse(401, "Unauthorized. Invalid secret key.")
        ELSE IF ~bindings.DB THEN errorResponse(500, "Database not configured")
        ELSE found(selectAll(store.conversations, params.personId),
                   selectAll(store.grandma_memories, params.personId))

\* POST /admin/query
handleAdminQuery(body, bindings, table) ==
    LET \* the LIKE operator of SQLite: % matches any characters, _ matches
        \* one, and ASCII letters match in either case
        RECURSIVE like(_, _)
        like(text, pattern) ==
            IF pattern = <<>> THEN text = <<>>
            ELSE IF pattern[1] = "%"
            THEN like(text, Tail(pattern)) \/ (text # <<>> /\ like(Tail(text), pattern))
            ELSE /\ text # <<>>
                 /\ pattern[1] = "_" \/ toLowerChar(pattern[1]) = toLowerChar(text[1])
                 /\ like(Tail(text), Tail(pattern))
        query == IF body.json THEN body.query ELSE Undefined
        personId == IF body.json THEN body.personId ELSE Undefined
        hasPersonIdColumn == table.exists /\ table.person_id
        pattern == <<"%">> \o query.s \o <<"%">>
        matches(row) ==
            /\ \/ like(row.user_message.s, pattern)
               \/ like(row.ai_response.s, pattern)
            /\ (Truthy(personId) /\ hasPersonIdColumn) => row.person_id = personId
        found(results) ==
            [ status |-> 200, success |-> TRUE, query |-> query,
              results |-> results, count |-> Len(results) ]
    IN  IF ~isAuthorized(body, bindings.ADMIN_SECRET)
        THEN errorResponse(401, "Unauthorized. Provide secret in body or header")
        ELSE IF ~Truthy(query) THEN errorResponse(400, "query required")
        ELSE IF ~bindings.DB THEN errorResponse(500, "Database not configured")
        ELSE IF ~table.exists THEN errorResponse(500, "Internal server error")
        ELSE found(TakeFirst(orderByTimestampDesc(SelectSeq(table.rows, matches)), 50))

\* GET /people (lines 770-825): the person ids of the conversations in the
\* order of ORDER BY person_id, then those found only in grandma_memories
handleGetPeople(bound, store) ==
    LET ascii == <<" ">> \o Digits \o UpperCase \o <<"_">> \o LowerCase
        code(c) == IF c \in Range(ascii) THEN CHOOSE i \in DOMAIN ascii : ascii[i] = c ELSE 0
        RECURSIVE before(_, _)
        before(a, b) ==
            IF a = <<>> THEN b # <<>>
            ELSE IF b = <<>> THEN FALSE
            ELSE IF code(a[1]) # code(b[1]) THEN code(a[1]) < code(b[1])
            ELSE before(Tail(a), Tail(b))
        ids(table) ==
            { table.rows[i].person_id : i \in DOMAIN table.rows }
              \ {Null, Undefined, Str(<<>>)}
        RECURSIVE ordered(_)
        ordered(set) ==
            IF set = {} THEN <<>>
            ELSE LET least == CHOOSE x \in set : \A y \in set \ {x} : before(x.s, y.s)
                 IN  <<least>> \o ordered(set \ {least})
        listed(people) ==
            [ status |-> 200, success |-> TRUE,
              people |-> [i \in 1..Len(people) |-> [id |-> people[i], name |-> people[i]]] ]
        readable(table) == table.exists /\ table.person_id
    IN  IF ~bound THEN errorResponse(500, "Database not configured")
        ELSE IF ~readable(store.conversations) \/ ~readable(store.grandma_memories)
        THEN errorResponse(500, "Internal server error")
        ELSE listed(ordered(ids(store.conversations))
                    \o ordered(ids(store.grandma_memories) \ ids(store.conversations)))

\* lines 1578-1581: the record GET /test-db inserts
testRow(clock) ==
    [ session_id |-> Str(<<"t","e","s","t","_","s","e","s","s","i","o","n">>),
      user_message |-> Str(<<"t","e","s","t"," ","m","e","s","s","a","g","e">>),
      ai_response |-> Str(<<"t","e","s","t"," ","r","e","s","p","o","n","s","e">>),
      language |-> Str(<<"e","n","-","U","S">>),
      timestamp |-> toISOString(clock),
      context |-> JSONstringify(History(<<>>)),
      person_id |-> Str(<<"t","e","s","t">>) ]

\* GET /test-db (lines 1548-1608): the response; the INSERT throws on a
\* table without the person_id column
handleTestDB(bound, table) ==
    IF ~bound
    THEN errorResponse(500, "Database not configured. Check wrangler.jsonc database binding.")
    ELSE IF table.exists /\ ~table.person_id
    THEN errorResponse(500, "Database test failed")
    ELSE [ status |-> 200, success |-> TRUE,
           message |-> "Database is working!",
           details |-> [ hasDB |-> TRUE, currentCount |-> Len(table.rows),
                         testInsertSuccess |-> TRUE,
                         testInsertId |-> Len(table.rows) + 1 ] ]

(***************************************************************************)
(* The initial states: the requests the clients send and the deployment    *)
(* they reach.                                                             *)
(***************************************************************************)
Deployments ==
    { [env |-> Env(b, ADMIN_KEY), db |-> Database(c, CurrentTable)] :
        b \in BOOLEAN, c \in {NoTable, LegacyTable, CurrentTable} }

CurrentDeployment == [env |-> Env(TRUE, ADMIN_KEY), db |-> Database(CurrentTable, CurrentTable)]

LegacyDeployment == [env |-> Env(TRUE, ADMIN_KEY), db |-> Database(LegacyTable, CurrentTable)]

Workload(requests, deployment, net) ==
    [reqs |-> requests, env |-> deployment.env, db |-> deployment.db, upstream |-> net]

\* one chat request, every message, language and history, the sources answering
\* anything
ReplyWorkloads ==
    { Workload(<<Request("chat", b)>>, CurrentDeployment, "up") :
        b \in { ChatBody(m, l, Undefined, h, P1) :
                  m \in InvalidMessages \cup ValidMessages, l \in Languages, h \in Histories }
              \cup {BadJson} }

\* one chat request, every sessionId and personId, on every deployment
StoreWorkloads ==
    { Workload(<<Request("chat", ChatBody(Str(<<"s","o">>), Undefined, s, NoHistory, p))>>, d, "down") :
        s \in SessionIds, p \in PersonIds, d \in Deployments }

\* two chat requests at once
ConcurrentWorkloads ==
    { Workload(<< Request("chat", ChatBody(Str(<<"s","o">>), Undefined, s1, NoHistory, P1)),
                  Request("chat", ChatBody(Str(<<"h","i">>), Undefined, s2, NoHistory, p2)) >>,
               d, "down") :
        s1 \in {Undefined, Str(<<"s","1">>)}, s2 \in {Undefined, Str(<<"s","1">>)},
        p2 \in {P1, P2}, d \in {CurrentDeployment, LegacyDeployment} }

\* a chat, a save and a biography request
AdminWorkloads ==
    { Workload(<< Request("chat", ChatBody(Str(<<"s","o">>), Undefined, Undefined, NoHistory, p)),
                  Request("save", SaveBody(Str(<<"a"," ","s","t","o","r","y">>), l, p)),
                  Request("analyze", AnalyzeBody(k, a)) >>,
               [env |-> Env(b, ks), db |-> Database(CurrentTable, m)], "down") :
        p \in {Undefined, P1}, l \in {Undefined, Str(<<"e","n","-","U","S">>)},
        k \in {Undefined, ADMIN_KEY, Str(<<"b","a","d">>)}, a \in {Undefined, P1, P2},
        b \in BOOLEAN, ks \in {Undefined, ADMIN_KEY}, m \in {NoTable, CurrentTable} }

\* a save and a biography request, the long-form generator answering anything;
\* the Note is a few words, sentences with keywords, two topics, or more than
\* 100 characters
BiographyWorkloads ==
    LET NoteTexts ==
            { Str(<<"a"," ","s","t","o","r","y">>),
              Str(<<"M","y"," ","m","o","t","h","e","r","."," ","I"," ","s","t","a","r","t","e","d"," ",
                    "s","c","h","o","o","l"," ","t","h","e","r","e","!">>),
              Str(<<"w","o","r","k"," ","a","n","d"," ","f","a","m","i","l","y">>),
              Str([i \in 1..101 |-> "a"]) }
    IN
    { Workload(<< Request("save", SaveBody(tx, Str(<<"e","n","-","U","S">>), P1)),
                  Request("analyze", AnalyzeBody(ADMIN_KEY, P1)) >>,
               CurrentDeployment, "up") :
        tx \in NoteTexts }

\* two chat requests and a conversations query, on a database with the table
\* as the worker creates it, as schema.sql creates it, or without it
QueryWorkloads ==
    { Workload(<< Request("chat", ChatBody(Str(<<"s","o">>), Undefined, s1, NoHistory, P1)),
                  Request("chat", ChatBody(Str(<<"h","i">>), Undefined, Str(<<"s","1">>), NoHistory, P2)),
                  Request("conversations", Params(s, p, l, Null, Null)) >>,
               [env |-> Env(TRUE, ADMIN_KEY), db |-> Database(c, CurrentTable)], "down") :
        s1 \in {Undefined, Str(<<"s","1">>)}, s \in {Null, Str(<<"s","1">>)},
        p \in {Null, P1}, l \in {Null, Str(<<"1">>)},
        c \in {NoTable, LegacyTable, CurrentTable} }

\* a chat and a request to an admin endpoint, with ADMIN_SECRET set or unset
AdminReadWorkloads ==
    { Workload(<< Request("chat", ChatBody(Str(<<"s","o">>), Undefined, Undefined, NoHistory, P1)), a >>,
               [env |-> Env(b, ks), db |-> Database(CurrentTable, CurrentTable)], "down") :
        a \in { Request("data", Params(Null, p, Null, k, Null)) :
                  p \in {Null, P1}, k \in {Null, ADMIN_KEY, DEFAULT_SECRET} }
              \cup { Request("query", Params(Undefined, p, Undefined, k, q)) :
                       p \in {Undefined, P1}, k \in {Undefined, ADMIN_KEY, DEFAULT_SECRET},
                       q \in {Undefined, Str(<<"S","O">>)} }
              \cup { Request("analyze", AnalyzeBody(k, P1)) : k \in {ADMIN_KEY, DEFAULT_SECRET} },
        b \in BOOLEAN, ks \in {Undefined, ADMIN_KEY} }

\* a chat beside the people listing and the database test
MaintenanceWorkloads ==
    { Workload(<< Request("chat", ChatBody(Str(<<"s","o">>), Undefined, Undefined, NoHistory, p)),
                  Request("people", Params(Null, Null, Null, Null, Null)),
                  Request("test-db", Params(Null, Null, Null, Null, Null)) >>,
               [env |-> Env(b, ADMIN_KEY), db |-> Database(c, m)], "down") :
        p \in {Undefined, P1}, b \in BOOLEAN,
        c \in {NoTable, LegacyTable, CurrentTable}, m \in {NoTable, CurrentTable} }

Workloads ==
    MaintenanceWorkloads \cup ReplyWorkloads \cup StoreWorkloads \cup ConcurrentWorkloads \cup AdminWorkloads
    \cup BiographyWorkloads \cup QueryWorkloads \cup AdminReadWorkloads

Init ==
    /\ \E w \in Workloads :
          /\ reqs = w.reqs
          /\ env = w.env
          /\ db = w.db
          /\ upstream = w.upstream
    /\ now = 0

(***************************************************************************)
(* Actions.                                                                *)
(***************************************************************************)
Replies == IF upstream = "up" THEN SourceReplies ELSE UnreachableReplies

\* POST /chat arrives: validation, then the first fetch
ChatReceive(r) ==
    /\ reqs[r].ep = "chat"
    /\ reqs[r].pc = "received"
    /\ reqs' = [reqs EXCEPT ![r] = handleChat(reqs[r])]
    /\ UNCHANGED <<env, db, now, upstream>>

\* the fetch of a model of modelOptions settles
SourceAnswers(r) ==
    /\ reqs[r].pc = "fetching"
    /\ \E reply \in Replies :
          reqs' = [reqs EXCEPT ![r] = afterSource(reqs[r], reply, now, env.DB)]
    /\ UNCHANGED <<env, db, now, upstream>>

\* the fetch of the text generation fallback settles
TextGenAnswers(r) ==
    /\ reqs[r].pc = "textgen"
    /\ \E reply \in Replies :
          reqs' = [reqs EXCEPT ![r] = afterTextGen(reqs[r], reply, now, env.DB)]
    /\ UNCHANGED <<env, db, now, upstream>>

\* a source accepts the request and never answers: fetch has no timeout, so
\* nothing resumes the handler
SourceNeverAnswers(r) ==
    /\ reqs[r].pc \in {"fetching", "textgen"}
    /\ reqs' = [reqs EXCEPT ![r].pc = "hung"]
    /\ UNCHANGED <<env, db, now, upstream>>

\* lines 571-582: CREATE TABLE IF NOT EXISTS conversations settles
CreateTableDone(r) ==
    /\ reqs[r].pc = "create"
    /\ \E ok \in BOOLEAN :
          IF ok
          THEN /\ db' = [db EXCEPT !.conversations = IF @.exists THEN @ ELSE CurrentTable]
               /\ reqs' = [reqs EXCEPT ![r].pc = "probe"]
          ELSE /\ db' = db
               /\ reqs' = [reqs EXCEPT ![r] = dbError([reqs[r] EXCEPT !.storeFailed = TRUE,
                                                                     !.outage = @ \/ ~ok])]
    /\ UNCHANGED <<env, now, upstream>>

\* lines 585-598: SELECT person_id FROM conversations settles; "no such
\* column" leads to the ALTER TABLE, any other error to the INSERT
ColumnProbeDone(r) ==
    /\ reqs[r].pc = "probe"
    /\ \E ok \in BOOLEAN :
          reqs' = [reqs EXCEPT ![r] =
                     IF ~ok THEN prepareInsert([reqs[r] EXCEPT !.storeFailed = TRUE,
                                                               !.outage = TRUE])
                     ELSE IF db.conversations.person_id THEN prepareInsert(reqs[r])
                     ELSE [reqs[r] EXCEPT !.pc = "alter"]]
    /\ UNCHANGED <<env, db, now, upstream>>

\* line 592: ALTER TABLE conversations ADD COLUMN person_id settles; it throws
\* when the column exists by now
AlterTableDone(r) ==
    /\ reqs[r].pc = "alter"
    /\ \E ok \in BOOLEAN :
          IF ok /\ ~db.conversations.person_id
          THEN /\ db' = [db EXCEPT !.conversations.person_id = TRUE]
               /\ reqs' = [reqs EXCEPT ![r] = prepareInsert(reqs[r])]
          ELSE /\ db' = db
               /\ reqs' = [reqs EXCEPT ![r] = dbError([reqs[r] EXCEPT !.storeFailed = TRUE,
                                                                     !.outage = @ \/ ~ok])]
    /\ UNCHANGED <<env, now, upstream>>

\* lines 610-613: the INSERT settles; it throws when the table has no
\* person_id column
InsertDone(r) ==
    /\ reqs[r].pc = "insert"
    /\ \E ok \in BOOLEAN :
          IF ok /\ db.conversations.exists /\ db.conversations.person_id
          THEN /\ db' = [db EXCEPT !.conversations.rows = Append(@, turnRow(reqs[r]))]
               /\ reqs' = [reqs EXCEPT ![r] = saved([reqs[r] EXCEPT !.inserted = @ + 1])]
          ELSE /\ db' = db
               /\ reqs' = [reqs EXCEPT ![r] = dbError([reqs[r] EXCEPT !.storeFailed = TRUE,
                                                                     !.outage = @ \/ ~ok])]
    /\ UNCHANGED <<env, now, upstream>>

\* POST /save
Save(r) ==
    /\ reqs[r].ep = "save"
    /\ reqs[r].pc = "received"
    /\ \E createOk \in BOOLEAN, insertOk \in BOOLEAN :
          LET response == handleSave(reqs[r].body, env.DB, db.grandma_memories, createOk, insertOk)
              \* the CREATE TABLE IF NOT EXISTS of lines 190-198 ran
              created == /\ \/ response.status = 200
                            \/ response.error = "Failed to save to database"
                         /\ createOk
                         /\ ~db.grandma_memories.exists
              table == IF created THEN CurrentTable ELSE db.grandma_memories
          IN  /\ reqs' = [reqs EXCEPT ![r] = respond(reqs[r], response)]
              /\ db' = [db EXCEPT !.grandma_memories =
                          IF response.status = 200
                          THEN [table EXCEPT !.rows = Append(@, memoryRow(reqs[r].body, now))]
                          ELSE table]
    /\ UNCHANGED <<env, now, upstream>>

\* POST /admin/analyze; the fetch of line 1152 is answered when the request
\* gets as far as the analysis
AdminAnalyze(r) ==
    /\ reqs[r].ep = "analyze"
    /\ reqs[r].pc = "received"
    /\ \E probeOk \in BOOLEAN, createOk \in BOOLEAN, selectOk \in BOOLEAN,
          reply \in { g \in GeneratorReplies : upstream = "up" \/ g.net # "ok" } :
          LET failed == reply.net # "ok" \/ reply.shape \in {"null", "bad_json"}
              internal(response) ==
                  response.status = 500 /\ response.error = "Internal server error"
              \* the fetch of line 1152 was made
              fetched(response) == response.status = 200 \/ internal(response)
              \* the CREATE TABLE IF NOT EXISTS of lines 1017-1025 ran
              created(response) ==
                  /\ response.status \in {200, 404} \/ internal(response)
                  /\ createOk
                  /\ ~db.grandma_memories.exists
              answered(response) ==
                  [reqs[r] EXCEPT
                     !.calls = IF fetched(response) THEN <<"microsoft/DialoGPT-medium">> ELSE @,
                     !.lastOutcome = IF ~fetched(response) THEN @
                                     ELSE IF failed THEN "error" ELSE "answered",
                     !.sawError = fetched(response) /\ failed]
              step(response) ==
                  /\ reqs' = [reqs EXCEPT ![r] = respond(answered(response), response)]
                  /\ db' = [db EXCEPT !.grandma_memories =
                              IF created(response) THEN CurrentTable ELSE @]
          IN  step(handleAdminAnalyze(reqs[r].body, env, db, probeOk,
                                      createOk /\ selectOk, reply))
    /\ UNCHANGED <<env, now, upstream>>

\* GET /conversations: the probe of the person_id column, then the SELECT
GetConversations(r) ==
    /\ reqs[r].ep = "conversations"
    /\ reqs[r].pc \in {"received", "select"}
    /\ reqs' = [reqs EXCEPT ![r] = handleGetConversations(reqs[r], env.DB, db.conversations)]
    /\ UNCHANGED <<env, db, now, upstream>>

\* GET /admin/data
AdminGetData(r) ==
    /\ reqs[r].ep = "data"
    /\ reqs[r].pc = "received"
    /\ reqs' = [reqs EXCEPT ![r] = respond(reqs[r], handleAdminGetData(reqs[r].body, env, db))]
    /\ UNCHANGED <<env, db, now, upstream>>

\* POST /admin/query
AdminQuery(r) ==
    /\ reqs[r].ep = "query"
    /\ reqs[r].pc = "received"
    /\ reqs' = [reqs EXCEPT ![r] =
                  respond(reqs[r], handleAdminQuery(reqs[r].body, env, db.conversations))]
    /\ UNCHANGED <<env, db, now, upstream>>

\* GET /people
GetPeople(r) ==
    /\ reqs[r].ep = "people"
    /\ reqs[r].pc = "received"
    /\ reqs' = [reqs EXCEPT ![r] = respond(reqs[r], handleGetPeople(env.DB, db))]
    /\ UNCHANGED <<env, db, now, upstream>>

\* GET /test-db: CREATE TABLE IF NOT EXISTS, the count, and the INSERT of the
\* test record
TestDB(r) ==
    /\ reqs[r].ep = "test-db"
    /\ reqs[r].pc = "received"
    /\ reqs' = [reqs EXCEPT ![r] = respond(reqs[r], handleTestDB(env.DB, db.conversations))]
    /\ db' = IF ~env.DB \/ (db.conversations.exists /\ ~db.conversations.person_id)
             THEN db
             ELSE [db EXCEPT !.conversations =
                     [CurrentTable EXCEPT !.rows = Append(db.conversations.rows, testRow(now))]]
    /\ UNCHANGED <<env, now, upstream>>

\* a millisecond passes
Tick ==
    /\ now < MaxClock
    /\ now' = now + 1
    /\ UNCHANGED <<reqs, env, db, upstream>>

Next ==
    \/ \E r \in DOMAIN reqs : ChatReceive(r)
    \/ \E r \in DOMAIN reqs : SourceAnswers(r)
    \/ \E r \in DOMAIN reqs : TextGenAnswers(r)
    \/ \E r \in DOMAIN reqs : SourceNeverAnswers(r)
    \/ \E r \in DOMAIN reqs : CreateTableDone(r)
    \/ \E r \in DOMAIN reqs : ColumnProbeDone(r)
    \/ \E r \in DOMAIN reqs : AlterTableDone(r)
    \/ \E r \in DOMAIN reqs : InsertDone(r)
    \/ \E r \in DOMAIN reqs : Save(r)
    \/ \E r \in DOMAIN reqs : AdminAnalyze(r)
    \/ \E r \in DOMAIN reqs : GetConversations(r)
    \/ \E r \in DOMAIN reqs : AdminGetData(r)
    \/ \E r \in DOMAIN reqs : AdminQuery(r)
    \/ \E r \in DOMAIN reqs : GetPeople(r)
    \/ \E r \in DOMAIN reqs : TestDB(r)
    \/ Tick

Spec == Init /\ [][Next]_vars

(***************************************************************************)
(* Properties.                                                             *)
(***************************************************************************)
Chats == { r \in DOMAIN reqs : reqs[r].ep = "chat" }

\* the request has returned a success response
Succeeded(r) == reqs[r].pc = "done" /\ reqs[r].response.status = 200

\* the message field holds a non-empty string
HasMessage(r) == reqs[r].body.json /\ reqs[r].body.message.t = "string" /\ reqs[r].body.message.s # <<>>

\* C1: every chat request whose message is a non-empty string returns a
\* success response whose reply is a non-empty string, whatever the sources
\* answer and whatever conversationHistory holds.
C1_ReplyAlwaysNonEmpty ==
    \A r \in Chats :
        (reqs[r].pc = "done" /\ HasMessage(r)) =>
            /\ reqs[r].response.status = 200
            /\ reqs[r].response.response.t = "string"
            /\ reqs[r].response.response.s # <<>>

\* the sources of a chat request, in their priority order
SourceList == modelOptions \o <<"gpt2">>

\* C2: the sources are called one at a time in the order of the source list,
\* no source is called once a source's text has been accepted by
\* enhanceAIResponse, and the reply is that accepted text.
C2_FirstAcceptedWins ==
    \A r \in Chats :
        /\ Len(reqs[r].calls) <= Len(SourceList)
        /\ \A k \in DOMAIN reqs[r].calls : reqs[r].calls[k] = SourceList[k]
        /\ reqs[r].acceptedAt # 0 => reqs[r].acceptedAt = Len(reqs[r].calls)
        /\ (Succeeded(r) /\ reqs[r].acceptedAt # 0) =>
               reqs[r].response.response = reqs[r].accepted

\* C3: no source is contacted twice within one chat request.
C3_NoSourceCalledTwice ==
    \A r \in Chats :
        \A i \in DOMAIN reqs[r].calls : \A j \in DOMAIN reqs[r].calls :
            i # j => reqs[r].calls[i] # reqs[r].calls[j]

\* a step of the handler of chat request r
ChatStep(r) ==
    \/ ChatReceive(r)
    \/ SourceAnswers(r)
    \/ TextGenAnswers(r)
    \/ SourceNeverAnswers(r)
    \/ CreateTableDone(r)
    \/ ColumnProbeDone(r)
    \/ AlterTableDone(r)
    \/ InsertDone(r)

\* C4: every source attempt is bounded by a timeout, so a chat request is
\* never left waiting for a source that does not answer: until it has
\* returned, its handler can always take another step.
C4_NeverStuckOnSource ==
    \A r \in Chats : reqs[r].pc = "done" \/ ENABLED ChatStep(r)

\* C5: after a source attempt that ends in a transport exception, a 503 or
\* another non-OK status the next source of the list is tried, and the request
\* ends with the success response.
C5_SourceErrorsAreNotFatal ==
    \A r \in Chats :
        /\ (reqs[r].lastOutcome = "error" /\ reqs[r].pc = "fetching") =>
               /\ reqs[r].modelIndex = Len(reqs[r].calls)
               /\ reqs[r].calls[reqs[r].modelIndex] = modelOptions[reqs[r].modelIndex]
        /\ (reqs[r].sawError /\ reqs[r].pc = "done") => reqs[r].response.status = 200

\* C6: a chat request that returns a reply has appended exactly one Turn,
\* when the store is bound and none of its statements failed.
C6_ExactlyOneTurn ==
    \A r \in Chats :
        (Succeeded(r) /\ env.DB /\ ~reqs[r].storeFailed) => reqs[r].inserted = 1

\* the request reached its save and the save went wrong: the
\* store is not bound, or a statement threw
SaveFailed(r) ==
    /\ reqs[r].pc = "done"
    /\ reqs[r].session # Undefined
    /\ (~env.DB \/ reqs[r].storeFailed)

\* C7: when the store is not bound or a statement of the save fails, the
\* request returns the success response with the reply and the sessionId it
\* had ready before the save.
C7_SaveFailureKeepsReply ==
    \A r \in Chats :
        SaveFailed(r) =>
            /\ reqs[r].response.status = 200
            /\ reqs[r].response.success
            /\ reqs[r].response.response = reqs[r].aiResponse
            /\ ~noResponseYet(reqs[r].response.response)
            /\ reqs[r].response.sessionId = reqs[r].session
            /\ reqs[r].response.sessionId = sessionOf(reqs[r].body.sessionId, reqs[r].timestamp.iso)

\* a statement of the save threw, no Turn was appended, and the reply came back
C7_Witness ==
    \E r \in Chats :
        /\ SaveFailed(r)
        /\ reqs[r].storeFailed
        /\ reqs[r].inserted = 0
        /\ reqs[r].response.status = 200

\* C8: a supplied sessionId is returned and stored unchanged, and two chat
\* calls that omit the sessionId receive different sessionIds.
C8_SessionIds ==
    \A r \in Chats :
        /\ (Succeeded(r) /\ Truthy(reqs[r].body.sessionId)) =>
               reqs[r].response.sessionId = reqs[r].body.sessionId
        /\ \A o \in Chats :
               ( /\ r # o
                 /\ Succeeded(r) /\ Succeeded(o)
                 /\ reqs[r].body.sessionId = Undefined
                 /\ reqs[o].body.sessionId = Undefined ) =>
                   reqs[r].response.sessionId # reqs[o].response.sessionId

\* the message field is missing, empty or not a string
BadMessage(r) ==
    \/ ~reqs[r].body.json
    \/ reqs[r].body.message = Undefined
    \/ reqs[r].body.message = Str(<<>>)
    \/ reqs[r].body.message.t # "string"

C10_NotFoundIffEmpty ==
    [][ \A r \in DOMAIN reqs :
          ( /\ reqs[r].ep = "analyze"
            /\ reqs[r].pc = "received"
            /\ reqs'[r].pc = "done"
            /\ reqs'[r].response.status \in {200, 404} ) =>
              ( reqs'[r].response.status = 404 <=>
                  /\ rowsOf(db.conversations.rows, reqs[r].body.personId) = <<>>
                  /\ rowsOf(db.grandma_memories.rows, reqs[r].body.personId) = <<>> ) ]_vars

\* the rows of a table stored under personId, as a query reads them
StoredFor(table, personId) == orderByTimestamp(rowsOf(table.rows, personId))

\* C11: generatePersonAnalysis never throws for a person with a Turn or a
\* Note: the request never ends in the handler's catch, and when the fetch of
\* the long-form generator throws, answers a non-OK status or its body cannot
\* be read, the analysis is the document assembled from the rows read.
C11_AnalysisNeverThrows ==
    [][ \A r \in DOMAIN reqs :
          ( /\ reqs[r].ep = "analyze"
            /\ reqs[r].pc = "received"
            /\ reqs'[r].pc = "done" ) =>
              /\ reqs'[r].response.status = 500 =>
                     reqs'[r].response.error = "Database not configured"
              /\ (reqs'[r].response.status = 200 /\ reqs'[r].lastOutcome = "error") =>
                     /\ reqs'[r].response.analysis.kind = "book"
                     /\ \E c \in {<<>>, StoredFor(db.conversations, reqs[r].body.personId)},
                           m \in {<<>>, StoredFor(db.grandma_memories, reqs[r].body.personId)} :
                           reqs'[r].response.analysis =
                               generateComprehensiveAnalysis(c, m, allTextOf(c, m)) ]_vars

\* the generator failed and the assembled document came back
C11_Witness ==
    \E r \in DOMAIN reqs :
        /\ reqs[r].ep = "analyze"
        /\ reqs[r].pc = "done"
        /\ reqs[r].lastOutcome = "error"
        /\ reqs[r].response.status = 200
        /\ reqs[r].response.analysis.kind = "book"
        /\ reqs[r].response.stats.totalMemories + reqs[r].response.stats.totalConversations > 0

AppendedTurn(c) ==
    [ session_id |-> reqs[c].response.sessionId,
      user_message |-> reqs[c].body.message,
      ai_response |-> reqs[c].response.response,
      language |-> languageOf(reqs[c].body),
      timestamp |-> reqs[c].response.timestamp,
      context |-> JSONstringify(historyOf(reqs[c].body)),
      person_id |-> finalPersonId(reqs[c].body.personId) ]

\* C13: once chat requests of session s have appended their Turns, a
\* conversations query filtered by s alone answers 200 with exactly those
\* Turns, every field as it was appended.
C13_RoundTrip ==
    [][ \A q \in DOMAIN reqs :
          ( /\ reqs[q].ep = "conversations"
            /\ reqs[q].pc = "select"
            /\ reqs'[q].pc = "done"
            /\ Truthy(reqs[q].body.sessionId)
            /\ reqs[q].body.personId = Null
            /\ reqs[q].body.limit = Null ) =>
              LET appended == { c \in Chats : /\ reqs[c].inserted = 1
                                              /\ reqs[c].response.sessionId = reqs[q].body.sessionId }
              IN  appended # {} =>
                    /\ reqs'[q].response.status = 200
                    /\ Len(reqs'[q].response.conversations) = Cardinality(appended)
                    /\ \A c \in appended :
                          AppendedTurn(c) \in Range(reqs'[q].response.conversations) ]_vars

\* a query by session has returned the Turns of two chat requests
C13_Witness ==
    \E q \in DOMAIN reqs :
        /\ reqs[q].ep = "conversations"
        /\ reqs[q].pc = "done"
        /\ reqs[q].body.sessionId = Str(<<"s","1">>)
        /\ reqs[q].body.personId = Null
        /\ reqs[q].body.limit = Null
        /\ reqs[q].response.status = 200
        /\ Len(reqs[q].response.conversations) = 2
        /\ \A c \in Chats : /\ reqs[c].inserted = 1
                             /\ AppendedTurn(c) \in Range(reqs[q].response.conversations)

\* C14: /admin/data, /admin/analyze and /admin/query answer with stored data
\* only when ADMIN_SECRET is set and the request presents its value.
C14_AdminNeedsConfiguredSecret ==
    \A r \in DOMAIN reqs :
        ( /\ reqs[r].ep \in {"data", "analyze", "query"}
          /\ reqs[r].pc = "done"
          /\ reqs[r].response.status = 200 ) =>
            /\ Truthy(env.ADMIN_SECRET)
            /\ reqs[r].body.json
            /\ reqs[r].body.secret = env.ADMIN_SECRET

\* C15: GET /conversations, which asks for no secret, returns only Turns
\* stored under the person id the caller names, never a Turn of another
\* person.
C15_PersonIsolation ==
    \A q \in DOMAIN reqs :
        ( /\ reqs[q].ep = "conversations"
          /\ reqs[q].pc = "done"
          /\ reqs[q].response.status = 200 ) =>
            \A i \in DOMAIN reqs[q].response.conversations :
                /\ Truthy(reqs[q].body.personId)
                /\ reqs[q].response.conversations[i].person_id = reqs[q].body.personId

\* the reply of a finished chat request is the text enhanceAIResponse accepted
FromSource(r) ==
    /\ Succeeded(r)
    /\ reqs[r].acceptedAt # 0
    /\ reqs[r].response.response = reqs[r].accepted

\* a chat request was answered although no source's text was accepted
EverySourceFailed(r) == Succeeded(r) /\ reqs[r].acceptedAt = 0

\* C16: a text enhanceAIResponse returned is returned unchanged when
\* enhanceAIResponse is applied to it again.
C16_EnhanceIdempotent ==
    \A r \in Chats :
        reqs[r].accepted # Null =>
            enhanceAIResponse(reqs[r].accepted.s, reqs[r].body.message.s,
                              languageOf(reqs[r].body), historyOf(reqs[r].body))
              = reqs[r].accepted

\* C17: no reply taken from a source is empty, shorter than 3 characters,
\* without an alphabetic or Urdu character, or a single token shorter than 5
\* characters.
C17_RejectedNeverReply ==
    \A r \in Chats :
        FromSource(r) =>
            LET reply == reqs[r].response.response.s
            IN  /\ Len(reply) >= 3
                /\ \E i \in DOMAIN reply : IsLetter(reply[i])
                /\ ~(splitWhitespaceLength(reply) = 1 /\ Len(reply) < 5)

\* C18: no text enhanceAIResponse accepts is shorter than 30 characters and
\* contains one of the generic acknowledgments.
C18_AcknowledgmentsRejected ==
    \A r \in Chats :
        reqs[r].accepted # Null =>
            LET lowerResponse == toLowerCase(reqs[r].accepted.s)
                genericPatterns ==
                    { <<"i","'","m"," ","l","i","s","t","e","n","i","n","g">>,
                      <<"y","e","s">>, <<"o","k","a","y">>, <<"i"," ","s","e","e">>,
                      <<"u0645","u06CC","u06BA"," ","u0633","u0646"," ","u0631","u06C1","u0627"," ",
                        "u06C1","u0648","u06BA">>,
                      <<"u06C1","u0627","u06BA">>,
                      <<"u0679","u06BE","u06CC","u06A9"," ","u06C1","u06D2">>,
                      <<"u062C","u06CC"," ","u06C1","u0627","u06BA">> }
            IN  ~ \E pattern \in genericPatterns :
                    includes(lowerResponse, pattern) /\ Len(lowerResponse) < 30

\* C19: when no source's text was accepted and the message or one of the
\* last three user messages of the history names a topic, the reply is the
\* question of the first such topic (childhood, family, work), unless the
\* message is a greeting or gives a name.
C19_FirstMatchingTopic ==
    \A r \in Chats :
        EverySourceFailed(r) =>
            LET message == toLowerCase(reqs[r].body.message.s)
                language == languageOf(reqs[r].body)
                recent == lastN(historyOf(reqs[r].body).items, 3)
                mentions(kw) ==
                    \/ includes(message, kw)
                    \/ \E i \in DOMAIN recent : includes(toLowerCase(recent[i].user.s), kw)
                greeting ==
                    \E kw \in { <<"h","e","a","r">>, <<"t","h","e","r","e">>,
                                 <<"c","a","n"," ","y","o","u">>, <<"h","e","l","l","o">>,
                                 <<"h","i">>, <<"h","e","y">>, <<"n","a","m","e">>,
                                 <<"i","'","m">>, <<"i"," ","a","m">> } :
                        includes(message, kw)
                reply == reqs[r].response.response.s
            IN  ~greeting =>
                  IF mentions(<<"c","h","i","l","d","h","o","o","d">>) \/ mentions(<<"g","r","e","w"," ","u","p">>)
                  THEN reply = childhoodReply(language)
                  ELSE IF mentions(<<"f","a","m","i","l","y">>) \/ mentions(<<"p","a","r","e","n","t">>)
                  THEN reply = familyReply(language)
                  ELSE (mentions(<<"w","o","r","k">>) \/ mentions(<<"j","o","b">>))
                         => reply = workReply(language)

\* C20: when no source's text was accepted and the English message is
\* "my name is X", "I'm X" or "I am X" for a name X of letters, the reply is
\* the greeting "Nice to meet you, X! ...", with X as it was written.
C20_GreetingNamesUser ==
    \A r \in Chats :
        EverySourceFailed(r) =>
            LET message == reqs[r].body.message.s
                forms == { <<"m","y"," ","n","a","m","e"," ","i","s"," ">>,
                           <<"I","'","m"," ">>, <<"I"," ","a","m"," ">> }
                name(form) == DropFirst(message, Len(form))
                named(form) ==
                    /\ Len(message) > Len(form)
                    /\ TakeFirst(message, Len(form)) = form
                    /\ \A i \in DOMAIN name(form) :
                          name(form)[i] \in Range(UpperCase) \cup Range(LowerCase)
            IN  \A form \in forms :
                    (named(form) /\ languageOf(reqs[r].body) = Str(<<"e","n","-","U","S">>)) =>
                        reqs[r].response.response.s
                          = <<"N","i","c","e"," ","t","o"," ","m","e","e","t"," ","y","o","u",","," ">>
                              \o name(form)
                              \o <<"!"," ","W","h","e","r","e"," ","a","r","e"," ","y","o","u"," ",
                                    "f","r","o","m","?">>

\* C21: when the long-form generator answers successfully, the document
\* returned is the generator's object only if that object holds the nine
\* sections of the document, and the assembled document otherwise.
C21_MalformedOutputAssembled ==
    \A r \in DOMAIN reqs :
        ( /\ reqs[r].ep = "analyze"
          /\ reqs[r].pc = "done"
          /\ reqs[r].response.status = 200
          /\ reqs[r].lastOutcome = "answered" ) =>
            LET analysis == reqs[r].response.analysis
                sections == { <<"i","n","t","r","o","d","u","c","t","i","o","n">>,
                              <<"e","a","r","l","y","L","i","f","e">>,
                              <<"p","e","r","s","o","n","a","l","i","t","y">>,
                              <<"l","i","f","e","J","o","u","r","n","e","y">>,
                              <<"r","e","l","a","t","i","o","n","s","h","i","p","s">>,
                              <<"v","a","l","u","e","s">>,
                              <<"s","t","o","r","i","e","s">>,
                              <<"t","h","e","m","e","s">>,
                              <<"c","o","n","c","l","u","s","i","o","n">> }
            IN  \/ analysis.kind = "book"
                \/ /\ analysis.kind = "parsed"
                   /\ \A s \in sections :
                         \E i \in DOMAIN analysis.pairs : analysis.pairs[i][1] = s

\* C22: for every person, the entry list the biography is assembled from
\* holds one entry per Turn and one per Note of the person and is in
\* non-decreasing order of timestamp, also when the Turns and the Notes are
\* supplied latest first.
C22_MergedListSorted ==
    [][ \A r \in DOMAIN reqs :
          ( /\ reqs[r].ep = "analyze"
            /\ reqs[r].pc = "received"
            /\ reqs'[r].pc = "done"
            /\ reqs'[r].response.status = 200 ) =>
              LET turns == StoredFor(db.conversations, reqs[r].body.personId)
                  notes == StoredFor(db.grandma_memories, reqs[r].body.personId)
                  reversed(s) == [i \in 1..Len(s) |-> s[Len(s) + 1 - i]]
                  merged(list) ==
                      /\ Len(list) = Len(turns) + Len(notes)
                      /\ \A i \in 1..(Len(list) - 1) : list[i].date.iso <= list[i + 1].date.iso
                      /\ Cardinality({ i \in DOMAIN list : list[i].type = "conversation" })
                            = Len(turns)
              IN  /\ merged(allEntriesOf(turns, notes))
                  /\ merged(allEntriesOf(reversed(turns), reversed(notes))) ]_vars

\* a biography was assembled for a person whose Note is older than the Turn
C22_Witness ==
    \E r \in DOMAIN reqs :
        /\ reqs[r].ep = "analyze"
        /\ reqs[r].pc = "done"
        /\ reqs[r].response.status = 200
        /\ reqs[r].response.analysis.kind = "book"
        /\ reqs[r].response.stats.totalConversations = 1
        /\ reqs[r].response.stats.totalMemories = 1
        /\ \E t \in DOMAIN db.conversations.rows, n \in DOMAIN db.grandma_memories.rows :
              /\ db.conversations.rows[t].person_id = reqs[r].body.personId
              /\ db.grandma_memories.rows[n].person_id = reqs[r].body.personId
              /\ db.grandma_memories.rows[n].timestamp.iso < db.conversations.rows[t].timestamp.iso

\* the keyword of each tag of the Topic Classifier
TopicKeyword ==
    << <<"c","h","i","l","d","h","o","o","d">>, <<"f","a","m","i","l","y">>, <<"w","o","r","k">>,
       <<"s","c","h","o","o","l">>, <<"t","r","a","v","e","l">>,
       <<"m","a","r","r","i","a","g","e">>, <<"f","r","i","e","n","d","s">>,
       <<"h","o","b","b","i","e","s">>, <<"h","e","a","l","t","h">>,
       <<"r","e","l","i","g","i","o","n">> >>

\* C23: every tag of an assembled biography is the tag of a keyword that the
\* text the biography was assembled from contains; a text without keywords
\* gets no tag.
C23_NoTagWithoutKeyword ==
    [][ \A r \in DOMAIN reqs :
          ( /\ reqs[r].ep = "analyze"
            /\ reqs[r].pc = "received"
            /\ reqs'[r].pc = "done"
            /\ reqs'[r].response.status = 200
            /\ reqs'[r].response.analysis.kind = "book" ) =>
              \E c \in {<<>>, StoredFor(db.conversations, reqs[r].body.personId)},
                 m \in {<<>>, StoredFor(db.grandma_memories, reqs[r].body.personId)} :
                  /\ reqs'[r].response.analysis
                        = generateComprehensiveAnalysis(c, m, allTextOf(c, m))
                  /\ \A tag \in Range(reqs'[r].response.analysis.topics) :
                        \E k \in DOMAIN TopicKeyword :
                            /\ includes(toLowerCase(allTextOf(c, m)), TopicKeyword[k])
                            /\ extractTopics(TopicKeyword[k]) = <<tag>> ]_vars

\* the words of text in the opposite order
ReverseWords(text) ==
    LET words == splitOn(text, {" ", "\n"})
    IN  join([i \in 1..Len(words) |-> words[Len(words) + 1 - i]], <<" ">>)

\* C24: the text of a person's Turns and Notes and the same text with its
\* words in the opposite order get the same set of tags from extractTopics.
C24_TopicsOrderIndependent ==
    [][ \A r \in DOMAIN reqs :
          ( /\ reqs[r].ep = "analyze"
            /\ reqs[r].pc = "received"
            /\ reqs'[r].pc = "done"
            /\ reqs'[r].response.status = 200 ) =>
              \A c \in {<<>>, StoredFor(db.conversations, reqs[r].body.personId)},
                 m \in {<<>>, StoredFor(db.grandma_memories, reqs[r].body.personId)} :
                  Range(extractTopics(toLowerCase(allTextOf(c, m))))
                    = Range(extractTopics(ReverseWords(toLowerCase(allTextOf(c, m))))) ]_vars

\* a biography was assembled from a text that names work before family and
\* is tagged Family, Work & Career
C24_Witness ==
    \E r \in DOMAIN reqs :
        /\ reqs[r].ep = "analyze"
        /\ reqs[r].pc = "done"
        /\ reqs[r].response.status = 200
        /\ reqs[r].response.analysis.kind = "book"
        /\ reqs[r].response.analysis.topics
             = extractTopics(<<"f","a","m","i","l","y">>) \o extractTopics(<<"w","o","r","k">>)
        /\ \E n \in DOMAIN db.grandma_memories.rows :
              db.grandma_memories.rows[n].text
                = Str(<<"w","o","r","k"," ","a","n","d"," ","f","a","m","i","l","y">>)

\* C25: the Turn a chat request appends is stored under a non-blank person
\* id: under "default" when the request's personId is absent, empty, only
\* whitespace or "default", and under the personId of the request otherwise.
C25_PersonIdSentinel ==
    [][ \A r \in Chats :
          reqs'[r].inserted = reqs[r].inserted + 1 =>
              LET row == db'.conversations.rows[Len(db'.conversations.rows)]
                  personId == reqs[r].body.personId
                  sentinel == Str(<<"d","e","f","a","u","l","t">>)
                  blank == \/ personId.t \in {"undefined", "null"}
                           \/ IsString(personId) /\ trim(personId.s) = <<>>
              IN  /\ Len(db'.conversations.rows) = Len(db.conversations.rows) + 1
                  /\ IsString(row.person_id)
                  /\ trim(row.person_id.s) # <<>>
                  /\ row.person_id = IF blank \/ personId = sentinel THEN sentinel
                                     ELSE personId ]_vars

\* a Turn of a request whose personId is one space is stored under "default"
C25_Witness ==
    \E r \in Chats :
        /\ reqs[r].inserted = 1
        /\ reqs[r].body.personId = Str(<<" ">>)
        /\ \E i \in DOMAIN db.conversations.rows :
              /\ db.conversations.rows[i].session_id = reqs[r].session
              /\ db.conversations.rows[i].person_id = Str(<<"d","e","f","a","u","l","t">>)

\* C26: the Turns of the store change only by a chat request appending one
\* Turn after its reply was produced; no step of any other request adds,
\* changes or removes a Turn.
C26_TurnsOnlyByChat ==
    [][ db'.conversations.rows # db.conversations.rows =>
          /\ Len(db'.conversations.rows) = Len(db.conversations.rows) + 1
          /\ SubSeq(db'.conversations.rows, 1, Len(db.conversations.rows))
                = db.conversations.rows
          /\ \E r \in Chats :
                /\ reqs'[r].inserted = reqs[r].inserted + 1
                /\ Truthy(reqs[r].aiResponse)
                /\ db'.conversations.rows[Len(db'.conversations.rows)].ai_response
                      = reqs[r].aiResponse ]_vars

\* C27: the chat request that persists a Turn returns the reply, sessionId
\* and timestamp of that stored Turn, and the Turn's userMessage is the
\* message the request carried.
C27_ResponseEqualsStoredTurn ==
    [][ \A r \in Chats :
          reqs'[r].inserted = reqs[r].inserted + 1 =>
            LET turns == db'.conversations.rows
                turn == turns[Len(turns)]
            IN  /\ Len(turns) = Len(db.conversations.rows) + 1
                /\ reqs'[r].pc = "done"
                /\ reqs'[r].response.status = 200
                /\ reqs'[r].response.response = turn.ai_response
                /\ reqs'[r].response.sessionId = turn.session_id
                /\ reqs'[r].response.timestamp = turn.timestamp
                /\ turn.user_message = reqs[r].body.message ]_vars

\* a chat request without a sessionId has persisted its Turn under the
\* sessionId generated for it
C27_Witness ==
    \E r \in Chats :
        /\ Succeeded(r)
        /\ reqs[r].inserted = 1
        /\ reqs[r].body.sessionId = Undefined
        /\ \E i \in DOMAIN db.conversations.rows :
              /\ db.conversations.rows[i].session_id = reqs[r].response.sessionId
              /\ db.conversations.rows[i].ai_response = reqs[r].response.response

\* C28: when two chat requests are handled at once, the conversations table
\* without the person_id column included, and the store fails none of their
\* statements by itself, both requests persist their Turn whatever the order
\* in which their column probes, ALTER TABLEs and INSERTs settle.
C28_BothTurnsPersisted ==
    ( /\ Cardinality(Chats) = 2
      /\ env.DB
      /\ \A c \in Chats : Succeeded(c) /\ ~reqs[c].outage ) =>
        /\ \A c \in Chats : reqs[c].inserted = 1
        /\ Len(db.conversations.rows) = 2

\* C29: a conversations query that carries a personId answers only Turns of
\* that person, whatever the state of the store at its column probe and at its
\* SELECT.
C29_OnlyTurnsOfThePerson ==
    \A q \in DOMAIN reqs :
        ( /\ reqs[q].ep = "conversations"
          /\ Succeeded(q)
          /\ Truthy(reqs[q].body.personId) ) =>
            \A i \in DOMAIN reqs[q].response.conversations :
                reqs[q].response.conversations[i].person_id = reqs[q].body.personId

\* C30: in a biography response that read all the person's Turns and Notes,
\* stats.dateRange.first is the earliest and stats.dateRange.last the latest
\* timestamp among those Turns and Notes taken together.
C30_DateRangeOverTurnsAndNotes ==
    [][ \A r \in DOMAIN reqs :
          LET turns == StoredFor(db.conversations, reqs[r].body.personId)
              notes == StoredFor(db.grandma_memories, reqs[r].body.personId)
              stamps == { turns[i].timestamp.iso : i \in DOMAIN turns }
                          \cup { notes[i].timestamp.iso : i \in DOMAIN notes }
              stats == reqs'[r].response.stats
          IN  ( /\ reqs[r].ep = "analyze"
                /\ reqs[r].pc = "received"
                /\ reqs'[r].pc = "done"
                /\ reqs'[r].response.status = 200
                /\ stats.totalConversations = Len(turns)
                /\ stats.totalMemories = Len(notes) ) =>
                  /\ stats.dateRange.first.iso \in stamps
                  /\ stats.dateRange.last.iso \in stamps
                  /\ \A s \in stamps : /\ stats.dateRange.first.iso <= s
                                        /\ s <= stats.dateRange.last.iso ]_vars
====
